---- MODULE Spec2Model ----
(***************************************************************************)
(* Nion Orchestration Engine as state machines:                            *)
(*  - the L2 dependency scheduler (L2Coordinator.route_all_tasks /         *)
(*    route_task / get_agent), one plan execution being a coroutine whose  *)
(*    only suspension point is the awaited agent.extract call;             *)
(*  - one route_task call followed through agent.extract and the call of   *)
(*    the extraction service;                                              *)
(*  - one orchestration of a message, from the planner to the response;    *)
(*  - one analysis of the timeline engine;                                 *)
(*  - one call of the extraction service (LLMClient), and extract_json;    *)
(*  - the tables of the Storage under save_task_plan and save_extraction;  *)
(*  - two plan executions interleaved on one L2Coordinator;                *)
(*  - the assembly of the extraction content from a task's context;        *)
(*  - rbac.filter_response on two responses for one role.                  *)
(***************************************************************************)
EXTENDS Integers, Sequences, FiniteSets, TLC

(* ------------------------------ bounds --------------------------------- *)
\* largest number of tasks in a plan
MaxTasks == 3
\* largest total number of depends_on entries in a plan
MaxEdges == 2

(* --------------------------- value domains ----------------------------- *)
\* Python None, for string-valued optionals
None == "None"
\* Python None, for an absent extraction payload
NoPayload == [model |-> "None"]
\* Python None, for an absent error message
NoError == <<>>

\* task identifiers, by position of the task in the plan
TaskIdAt == <<"TASK-001", "TASK-002", "TASK-003", "TASK-004", "TASK-005">>
\* identifiers that name no task of any plan
DanglingIds == {"TASK-999"}
\* the order in which identifiers are listed inside a depends_on list
IdListOrder == TaskIdAt \o <<"TASK-999">>

\* the message content handed to route_all_tasks
Contents == {"message body"}
\* messages of the exceptions an extract call may raise
ExceptionMessages == {"extraction service unavailable"}

Range(s) == {s[i] : i \in 1..Len(s)}

(* ------------------------------ router --------------------------------- *)
L3_AGENTS == {"action_item_extraction", "risk_extraction", "decision_extraction",
              "knowledge_retrieval", "qna", "evaluation", "message_delivery"}

agent_map == [a \in L3_AGENTS |->
                CASE a = "action_item_extraction" -> "action_items_agent"
                  [] a = "risk_extraction"        -> "risks_agent"
                  [] a = "decision_extraction"    -> "decisions_agent"
                  [] a = "knowledge_retrieval"    -> "knowledge_retrieval_agent"
                  [] a = "qna"                    -> "qna_agent"
                  [] a = "evaluation"             -> "evaluation_agent"
                  [] a = "message_delivery"       -> "message_delivery_agent"]

VALID_DOMAINS == {"TRACKING_EXECUTION", "COMMUNICATION_COLLABORATION", "LEARNING_IMPROVEMENT"}

domain_defaults == [d \in VALID_DOMAINS |->
                CASE d = "TRACKING_EXECUTION"          -> "action_items_agent"
                  [] d = "COMMUNICATION_COLLABORATION" -> "qna_agent"
                  [] d = "LEARNING_IMPROVEMENT"        -> "decisions_agent"]

\* dict.get(key): None when the key is absent
DictGet(d, k) == IF k \in DOMAIN d THEN d[k] ELSE None

\* variant: the domain default is consulted before the agent name
get_agent_DomainFirst(task) ==
    IF task.domain \in DOMAIN domain_defaults
    THEN domain_defaults[task.domain]
    ELSE IF task.l3_agent # None /\ task.l3_agent \in DOMAIN agent_map
         THEN agent_map[task.l3_agent]
         ELSE None

get_agent(task) ==
    IF task.l3_agent # None /\ task.l3_agent \in DOMAIN agent_map
    THEN agent_map[task.l3_agent]
    ELSE DictGet(domain_defaults, task.domain)

(* --------------------------- task and plan ----------------------------- *)
\* (l3_agent, domain) pairs a task may carry: domain default, explicit
\* agent overriding the domain, and a pair no capability resolves for
TaskTargets == { [l3_agent |-> None,         domain |-> "TRACKING_EXECUTION"],
                 [l3_agent |-> "qna",        domain |-> "TRACKING_EXECUTION"],
                 [l3_agent |-> "summarizer", domain |-> "GENERAL"] }

L1Task(id, deps, target) ==
    [task_id |-> id, domain |-> target.domain, l3_agent |-> target.l3_agent,
     depends_on |-> deps]

PlanIds(tasks) == {tasks[i].task_id : i \in 1..Len(tasks)}

\* subsets of S with at most k elements
RECURSIVE SubsetsUpTo(_, _)
SubsetsUpTo(S, k) ==
    IF k = 0 THEN {{}}
    ELSE LET P == SubsetsUpTo(S, k - 1)
         IN  P \cup {p \cup {x} : p \in P, x \in S}

\* the identifiers of S as a list, in IdListOrder
IdList(S) == SelectSeq(IdListOrder, LAMBDA id : id \in S)

\* every plan of n tasks with unique ids and at most MaxEdges dependency
\* entries, each naming a task of the plan (itself included) or a dangling id
PlansOfSize(n) ==
    LET ids   == {TaskIdAt[i] : i \in 1..n} \cup DanglingIds
        edges == SubsetsUpTo((1..n) \X ids, MaxEdges)
    IN  { [i \in 1..n |->
             L1Task(TaskIdAt[i], IdList({e[2] : e \in {x \in E : x[1] = i}}), tg[i])]
          : E \in edges, tg \in [1..n -> TaskTargets] }

Plans == UNION {PlansOfSize(n) : n \in 0..MaxTasks}

\* L1TaskPlan.get_execution_order: stable topological order.  Repeatedly
\* take the earliest task, in plan order, whose dependencies are all done
\* (an id naming no task of the plan is always satisfied); when no task is
\* ready, the remaining tasks follow in plan order.
IsReady(tasks, task, done) ==
    \A d \in Range(task.depends_on) : d \in PlanIds(tasks) => d \in done

RECURSIVE ExecutionOrderFrom(_, _, _)
ExecutionOrderFrom(tasks, remaining, done) ==
    IF remaining = <<>> THEN <<>>
    ELSE LET ready == SelectSeq(remaining, LAMBDA t : IsReady(tasks, t, done))
         IN  IF ready = <<>> THEN remaining
             ELSE LET t == ready[1]
                  IN  <<t>> \o ExecutionOrderFrom(tasks,
                                  SelectSeq(remaining, LAMBDA u : u # t),
                                  done \cup {t.task_id})

get_execution_order(tasks) == ExecutionOrderFrom(tasks, tasks, {})

(* ------------------------ extraction capability ------------------------ *)
\* what an awaited agent.extract(content, task_id) call can return: the
\* agent's empty_result or a parsed result of the agent's result model
AgentPayloads(agent, task_id) ==
    CASE agent = "qna_agent" ->
           { [model |-> "QnAResponse",
              fields |-> [response |-> "answer", source_task_id |-> task_id]] }
      [] agent = "evaluation_agent" ->
           { [model |-> "EvaluationResult",
              fields |-> [result |-> "APPROVED", source_task_id |-> task_id]] }
      [] agent = "message_delivery_agent" ->
           { [model |-> "MessageDeliveryResult",
              fields |-> [channel |-> "email", source_task_id |-> None]] }
      [] OTHER ->
           { [model |-> "ItemsResult",
              fields |-> [items |-> <<>>, source_task_id |-> None]],
             [model |-> "ItemsResult",
              fields |-> [items |-> <<"item-1", "item-2">>, source_task_id |-> task_id]] }

\* BaseModel.model_dump(mode='json'): the dict of the model's fields
model_dump(payload) == payload.fields

\* truth value of an Optional[ExtractionResult]
Truthy(payload) == payload # NoPayload

(* ------------------------------ route_task ----------------------------- *)
L2RoutingResult(task, l3_agent, extraction_result, success, error, status) ==
    [task |-> task, domain |-> task.domain, l3_agent |-> l3_agent,
     extraction_result |-> extraction_result, success |-> success,
     error |-> error, status |-> status]

\* variant: status is left at the dataclass default
NoAgentResult_DefaultStatus(task) ==
    L2RoutingResult(task, task.l3_agent, NoPayload, FALSE,
                    <<"No agent found for task: ", task.task_id>>, "COMPLETED")

\* the result returned when get_agent finds no capability
NoAgentResult(task) ==
    L2RoutingResult(task, task.l3_agent, NoPayload, FALSE,
                    <<"No agent found for task: ", task.task_id>>, "FAILED")

\* the result returned after agent.extract returned a payload
SuccessResult(task, agent, payload) ==
    L2RoutingResult(task, IF task.l3_agent # None THEN task.l3_agent ELSE agent,
                    payload, TRUE, NoError, "COMPLETED")

\* variant: the except branch leaves error unset
ExceptionResult_NoError(task, e) ==
    L2RoutingResult(task, task.l3_agent, NoPayload, FALSE, NoError, "FAILED")

\* the result returned by the except branch, e being str(exception)
ExceptionResult(task, e) ==
    L2RoutingResult(task, task.l3_agent, NoPayload, FALSE, <<e>>, "FAILED")

\* variant: the items rule is tried before the response rule
ContextPart_ItemsFirst(dep_id, dep_data) ==
    IF "items" \in DOMAIN dep_data
    THEN IF dep_data.items # <<>>
         THEN << [label |-> "Extracted from", dep_id |-> dep_id,
                  count |-> Len(dep_data.items)] >>
         ELSE <<>>
    ELSE IF "response" \in DOMAIN dep_data
    THEN << [label |-> "Response to evaluate:", text |-> dep_data.response] >>
    ELSE << [label |-> "generic", dep_id |-> dep_id, data |-> dep_data] >>

\* the context fragment of one (dep_id, dep_data) entry, <<>> when the
\* entry contributes nothing
ContextPart(dep_id, dep_data) ==
    IF "response" \in DOMAIN dep_data
    THEN << [label |-> "Response to evaluate:", text |-> dep_data.response] >>
    ELSE IF "items" \in DOMAIN dep_data
    THEN IF dep_data.items # <<>>
         THEN << [label |-> "Extracted from", dep_id |-> dep_id,
                  count |-> Len(dep_data.items)] >>
         ELSE <<>>
    ELSE << [label |-> "generic", dep_id |-> dep_id, data |-> dep_data] >>

\* context is the dict as the list of its (dep_id, dep_data) entries
RECURSIVE ContextParts(_)
ContextParts(context) ==
    IF context = <<>> THEN <<>>
    ELSE ContextPart(context[1].dep_id, context[1].dep_data)
         \o ContextParts(Tail(context))

\* the content handed to agent.extract
ExtractionContent(content, context) ==
    LET context_parts == ContextParts(context)
    IN  IF context # <<>> /\ context_parts # <<>>
        THEN [content |-> content, delimiter |-> "--- Previous Results ---",
              parts |-> context_parts]
        ELSE [content |-> content]

(* --------------------------- route_all_tasks --------------------------- *)
\* variant: the loop runs over task_plan.tasks as declared
OrderedTasks_Declared(tasks) == tasks

\* ordered_tasks = task_plan.get_execution_order()
OrderedTasks(tasks) == get_execution_order(tasks)

\* the context dict built from the dependencies of a task
RECURSIVE ContextFrom(_, _, _)
ContextFrom(deps, completed, seen) ==
    IF deps = <<>> THEN <<>>
    ELSE LET dep_id == deps[1]
             rest   == ContextFrom(Tail(deps), completed, seen \cup {dep_id})
         IN  IF /\ dep_id \in DOMAIN completed
                /\ Truthy(completed[dep_id].extraction_result)
                /\ dep_id \notin seen
             THEN << [dep_id |-> dep_id,
                      dep_data |-> model_dump(completed[dep_id].extraction_result)] >>
                  \o rest
             ELSE rest

\* variant: completed_results[dep_id] is read without the membership test,
\* a KeyError for a dependency that has no result yet
BuildContext_NoMembershipTest(task, completed) ==
    IF \E d \in Range(task.depends_on) : d \notin DOMAIN completed
    THEN [kind |-> "raise", error |-> "KeyError"]
    ELSE [kind |-> "return", value |-> ContextFrom(task.depends_on, completed, {})]

\* variant: every completed dependency is forwarded, failed ones with
\* their error
BuildContext_ForwardFailed(task, completed) ==
    [kind |-> "return",
     value |-> [k \in 1..Len(SelectSeq(task.depends_on, LAMBDA d : d \in DOMAIN completed)) |->
        LET dep_id == SelectSeq(task.depends_on, LAMBDA d : d \in DOMAIN completed)[k]
        IN  [dep_id |-> dep_id,
             dep_data |-> IF Truthy(completed[dep_id].extraction_result)
                          THEN model_dump(completed[dep_id].extraction_result)
                          ELSE [error |-> completed[dep_id].error]]]]

\* the loop's context-building statements; they are outside any try, so an
\* exception raised here would leave route_all_tasks
BuildContext(task, completed) ==
    [kind |-> "return", value |-> ContextFrom(task.depends_on, completed, {})]

\* variant: failed results are not reported
RecordResult_SuccessOnly(res, result) ==
    IF result.success THEN Append(res, result) ELSE res

\* variant: results.insert(0, result)
RecordResult_Prepend(res, result) == <<result>> \o res

\* results.append(result)
RecordResult(res, result) == Append(res, result)

\* variant: only successful results are stored
MarkCompleted_SuccessOnly(completed, task, result) ==
    IF result.success
    THEN [id \in DOMAIN completed \cup {task.task_id} |->
            IF id = task.task_id THEN result ELSE completed[id]]
    ELSE completed

\* completed_results[task.task_id] = result
MarkCompleted(completed, task, result) ==
    [id \in DOMAIN completed \cup {task.task_id} |->
        IF id = task.task_id THEN result ELSE completed[id]]

\* variant: the handler logs and re-raises
HandleExtractException_Reraise(task, e) ==
    [kind |-> "raise", error |-> e]

\* except Exception as e: return the failed result (the exception stops here)
HandleExtractException(task, e) ==
    [kind |-> "return", result |-> ExceptionResult(task, e)]

(* ------------------------------- state --------------------------------- *)
VARIABLES
    task_plan,          \* the tasks of the L1TaskPlan, in declaration order
    content,            \* the original content of the message
    pc,                 \* position of the route_all_tasks coroutine
    ordered_tasks,      \* local ordered_tasks
    idx,                \* position of the for loop in ordered_tasks
    results,            \* local results
    completed_results,  \* local completed_results
    call,               \* the agent.extract call being awaited
    trace               \* history: the events of this execution, in order

\* one route_task call followed through agent.extract and the service call
VARIABLES
    rt_pc,              \* position of the route_task coroutine
    rt_task,            \* argument task
    rt_content,         \* argument content (context is None)
    rt_service,         \* history: the outcomes of the client.complete calls
    rt_result           \* the L2RoutingResult returned

\* one orchestration of a message: planning, then the rest of the pipeline
VARIABLES
    or_pc,              \* position of the orchestrate coroutine
    or_timeline,        \* history: how the timeline analysis of plan_tasks ended
    or_service,         \* history: the outcome of the planner's client.complete
    or_l1,              \* the L1OrchestratorResult of plan_tasks
    or_stages,          \* history: the pipeline stages run after planning
    or_response         \* what the caller receives

\* one TimelineEngine.analyze call
VARIABLES
    tl_pc,              \* position of the analyze coroutine
    tl_content,         \* argument content
    tl_today,           \* datetime.now().date()
    tl_service,         \* history: the outcome of the engine's client.complete
    tl_result           \* the TimelineAnalysisResult returned

\* one call of the extraction service: _complete_openai_compatible or _complete_gemini
VARIABLES
    cl_pc,              \* position of the coroutine
    cl_provider,        \* which of the two functions is called
    cl_prompt,          \* argument user_prompt
    cl_transport,       \* history: what each request to the provider ended with
    cl_outcome          \* how the call ended

\* one LLMClient.extract_json call
VARIABLES
    ej_pc,              \* position of the call
    ej_raw,             \* argument raw
    ej_outcome          \* what the call returns or raises

\* the tables of one Storage and the calls made on it
VARIABLES
    db_pc,              \* whether the storage is followed
    db_tasks,           \* the rows of table tasks
    db_extractions,     \* the rows of table extractions, in insertion order
    db_calls            \* history: the save calls made, in order

\* two route_all_tasks calls on one L2Coordinator, each with its own locals
VARIABLES
    px_pc,              \* position of each route_all_tasks coroutine
    px_plan,            \* argument task_plan of each call
    px_ordered,         \* local ordered_tasks of each call
    px_idx,             \* position of the for loop of each call
    px_results,         \* local results of each call
    px_completed,       \* local completed_results of each call
    px_call,            \* the agent.extract call each call awaits
    px_contexts,        \* history: the context dicts each call built
    co_initialized      \* self._initialized of the coordinator

\* route_task from its try to the extraction content it hands to agent.extract
VARIABLES
    cx_pc,              \* position in route_task
    cx_content,         \* argument content
    cx_context,         \* argument context, as the list of its entries
    cx_extraction_content\* local extraction_content

\* two filter_response calls made for the same role, each on its own response
VARIABLES
    fr_pc,              \* position of the two calls
    fr_role,            \* argument role of both calls
    fr_input,           \* the objects each call is given: data and the dict it refers to
    fr_heap,            \* the objects after each call
    fr_returned         \* the reference each call returns

scheduler_vars == <<task_plan, content, pc, ordered_tasks, idx, results,
                    completed_results, call, trace>>
route_task_vars == <<rt_pc, rt_task, rt_content, rt_service, rt_result>>
orchestrate_vars == <<or_pc, or_timeline, or_service, or_l1, or_stages, or_response>>
timeline_vars == <<tl_pc, tl_content, tl_today, tl_service, tl_result>>
client_vars == <<cl_pc, cl_provider, cl_prompt, cl_transport, cl_outcome>>
extract_json_vars == <<ej_pc, ej_raw, ej_outcome>>
storage_vars == <<db_pc, db_tasks, db_extractions, db_calls>>
pair_vars == <<px_pc, px_plan, px_ordered, px_idx, px_results, px_completed, px_call, px_contexts, co_initialized>>
context_vars == <<cx_pc, cx_content, cx_context, cx_extraction_content>>
filter_vars == <<fr_pc, fr_role, fr_input, fr_heap, fr_returned>>

\* the variables the scheduler leaves alone
outside_scheduler == <<route_task_vars, orchestrate_vars, timeline_vars,
                       client_vars,
                       extract_json_vars,
                       storage_vars,
                       pair_vars,
                       context_vars,
                       filter_vars>>
\* the variables a single route_task call leaves alone
outside_route_task == <<scheduler_vars, orchestrate_vars, timeline_vars,
                        client_vars,
                        extract_json_vars,
                        storage_vars,
                        pair_vars,
                        context_vars,
                        filter_vars>>
\* the variables an orchestration followed to the planner leaves alone
outside_orchestrate == <<scheduler_vars, route_task_vars, timeline_vars,
                         client_vars,
                         extract_json_vars,
                         storage_vars,
                         pair_vars,
                         context_vars,
                         filter_vars>>
\* the variables a timeline analysis leaves alone
outside_timeline == <<scheduler_vars, route_task_vars, orchestrate_vars,
                      client_vars,
                      extract_json_vars,
                      storage_vars,
                      pair_vars,
                      context_vars,
                      filter_vars>>

\* the variables a single call of the extraction service leaves alone
outside_client == <<scheduler_vars, route_task_vars, orchestrate_vars,
                    timeline_vars,
                    extract_json_vars,
                    storage_vars,
                    pair_vars,
                    context_vars,
                    filter_vars>>

\* the variables an extract_json call leaves alone
outside_extract_json == <<scheduler_vars, route_task_vars, orchestrate_vars, timeline_vars, client_vars,
                          storage_vars,
                          pair_vars,
                          context_vars,
                          filter_vars>>

\* the variables the storage leaves alone
outside_storage == <<scheduler_vars, route_task_vars, orchestrate_vars, timeline_vars, client_vars, extract_json_vars,
                     pair_vars,
                     context_vars,
                     filter_vars>>

\* the variables two executions on one coordinator leave alone
outside_pair == <<scheduler_vars, route_task_vars, orchestrate_vars, timeline_vars, client_vars, extract_json_vars, storage_vars,
                  context_vars,
                  filter_vars>>

\* the variables the assembly of the extraction content leaves alone
outside_context == <<scheduler_vars, route_task_vars, orchestrate_vars, timeline_vars, client_vars, extract_json_vars, storage_vars, pair_vars,
                     filter_vars>>

\* the variables the role filter leaves alone
outside_filter == <<scheduler_vars, route_task_vars, orchestrate_vars, timeline_vars, client_vars, extract_json_vars, storage_vars, pair_vars, context_vars>>

vars == <<scheduler_vars, route_task_vars, orchestrate_vars, timeline_vars,
         client_vars,
         extract_json_vars,
         storage_vars,
         pair_vars,
         context_vars,
         filter_vars>>

\* Python None and str values of an argument that is declared str
PyNone == [type |-> "NoneType"]
PyStr(chars) == [type |-> "str", value |-> chars]

\* no route_task call is followed
RouteTaskIdle ==
    /\ rt_pc = "off"
    /\ rt_task = [task_id |-> None]
    /\ rt_content = PyNone
    /\ rt_service = <<>>
    /\ rt_result = [status |-> None]

\* no orchestration is followed
OrchestrateIdle ==
    /\ or_pc = "off"
    /\ or_timeline = None
    /\ or_service = <<>>
    /\ or_l1 = [success |-> None]
    /\ or_stages = <<>>
    /\ or_response = [kind |-> None]

\* no timeline analysis is followed
TimelineIdle ==
    /\ tl_pc = "off"
    /\ tl_content = <<>>
    /\ tl_today = <<>>
    /\ tl_service = <<>>
    /\ tl_result = [events |-> <<>>]

EmptyDict == [id \in {} |-> NoPayload]
NoCall == [task_id |-> None]

\* no call of the extraction service is followed
ClientIdle ==
    /\ cl_pc = "off"
    /\ cl_provider = None
    /\ cl_prompt = <<>>
    /\ cl_transport = <<>>
    /\ cl_outcome = [kind |-> None]

\* no extract_json call is followed
ExtractJsonIdle ==
    /\ ej_pc = "off"
    /\ ej_raw = <<>>
    /\ ej_outcome = [kind |-> None]

\* the storage is not followed
StorageIdle ==
    /\ db_pc = "off"
    /\ db_tasks = {}
    /\ db_extractions = <<>>
    /\ db_calls = <<>>

\* no pair of executions is followed
PairIdle ==
    /\ px_pc = <<>>
    /\ px_plan = <<>>
    /\ px_ordered = <<>>
    /\ px_idx = <<>>
    /\ px_results = <<>>
    /\ px_completed = <<>>
    /\ px_call = <<>>
    /\ px_contexts = <<>>
    /\ co_initialized = FALSE

\* no assembly of an extraction content is followed
ContextIdle ==
    /\ cx_pc = "off"
    /\ cx_content = None
    /\ cx_context = <<>>
    /\ cx_extraction_content = [content |-> None]

\* no filter_response call is followed
FilterIdle ==
    /\ fr_pc = "off"
    /\ fr_role = None
    /\ fr_input = <<>>
    /\ fr_heap = <<>>
    /\ fr_returned = <<>>

Init ==
    /\ task_plan \in Plans
    /\ content \in Contents
    /\ pc = "idle"
    /\ ordered_tasks = <<>>
    /\ idx = 1
    /\ results = <<>>
    /\ completed_results = EmptyDict
    /\ call = NoCall
    /\ trace = <<>>
    /\ RouteTaskIdle
    /\ OrchestrateIdle
    /\ TimelineIdle
    /\ ClientIdle
    /\ ExtractJsonIdle
    /\ StorageIdle
    /\ PairIdle
    /\ ContextIdle
    /\ FilterIdle

CurrentTask == ordered_tasks[idx]

\* route_all_tasks is called: the order is computed, the locals are created
CallRouteAllTasks ==
    /\ pc = "idle"
    /\ pc' = "loop"
    /\ ordered_tasks' = OrderedTasks(task_plan)
    /\ idx' = 1
    /\ results' = <<>>
    /\ completed_results' = EmptyDict
    /\ trace' = <<>>
    /\ UNCHANGED <<task_plan, content, call>>
    /\ UNCHANGED outside_scheduler

\* the end of one loop iteration: the result is appended and stored
FinishTask(task, result) ==
    /\ results' = RecordResult(results, result)
    /\ completed_results' = MarkCompleted(completed_results, task, result)
    /\ idx' = idx + 1
    /\ pc' = "loop"
    /\ call' = NoCall

\* an exception no handler catches leaves route_all_tasks
Propagate ==
    /\ pc' = "raised"
    /\ call' = NoCall
    /\ UNCHANGED <<idx, results, completed_results, trace>>

\* one iteration for a task no capability resolves for: route_task returns
\* the failed result at once, without any await
RouteNoAgent ==
    /\ pc = "loop"
    /\ idx <= Len(ordered_tasks)
    /\ get_agent(CurrentTask) = None
    /\ IF BuildContext(CurrentTask, completed_results).kind = "return"
       THEN /\ FinishTask(CurrentTask, NoAgentResult(CurrentTask))
            /\ trace' = trace \o
                  << [ev |-> "route", task_id |-> CurrentTask.task_id],
                     [ev |-> "done", task_id |-> CurrentTask.task_id] >>
       ELSE Propagate
    /\ UNCHANGED <<task_plan, content, ordered_tasks>>
    /\ UNCHANGED outside_scheduler

\* one iteration up to its suspension point: the context is built, the
\* capability resolved, the content assembled and agent.extract awaited
RouteAwaitExtract ==
    /\ pc = "loop"
    /\ idx <= Len(ordered_tasks)
    /\ get_agent(CurrentTask) # None
    /\ LET built == BuildContext(CurrentTask, completed_results)
       IN  IF built.kind = "return"
           THEN LET context == built.value
                    extraction_content == ExtractionContent(content, context)
                IN  /\ call' = [task_id |-> CurrentTask.task_id,
                                agent |-> get_agent(CurrentTask),
                                context |-> context,
                                extraction_content |-> extraction_content]
                    /\ trace' = trace \o
                          << [ev |-> "route", task_id |-> CurrentTask.task_id],
                             [ev |-> "extract", task_id |-> CurrentTask.task_id,
                              extraction_content |-> extraction_content] >>
                    /\ pc' = "extract"
                    /\ UNCHANGED <<idx, results, completed_results>>
           ELSE Propagate
    /\ UNCHANGED <<task_plan, content, ordered_tasks>>
    /\ UNCHANGED outside_scheduler

\* the awaited call returns a payload
ExtractReturns ==
    /\ pc = "extract"
    /\ \E payload \in AgentPayloads(call.agent, call.task_id) :
          FinishTask(CurrentTask, SuccessResult(CurrentTask, call.agent, payload))
    /\ trace' = Append(trace, [ev |-> "done", task_id |-> CurrentTask.task_id])
    /\ UNCHANGED <<task_plan, content, ordered_tasks>>
    /\ UNCHANGED outside_scheduler

\* the awaited call raises an exception
ExtractRaises ==
    /\ pc = "extract"
    /\ \E e \in ExceptionMessages :
          LET outcome == HandleExtractException(CurrentTask, e)
          IN  /\ IF outcome.kind = "return"
                 THEN FinishTask(CurrentTask, outcome.result)
                 ELSE /\ pc' = "raised"
                      /\ call' = NoCall
                      /\ UNCHANGED <<idx, results, completed_results>>
              /\ trace' = trace \o
                    << [ev |-> "raise", task_id |-> CurrentTask.task_id, error |-> e],
                       [ev |-> "done", task_id |-> CurrentTask.task_id] >>
    /\ UNCHANGED <<task_plan, content, ordered_tasks>>
    /\ UNCHANGED outside_scheduler

\* the loop is exhausted: route_all_tasks returns results
ReturnResults ==
    /\ pc = "loop"
    /\ idx > Len(ordered_tasks)
    /\ pc' = "returned"
    /\ UNCHANGED <<task_plan, content, ordered_tasks, idx, results,
                   completed_results, call, trace>>
    /\ UNCHANGED outside_scheduler

Next ==
    \/ CallRouteAllTasks
    \/ RouteNoAgent
    \/ RouteAwaitExtract
    \/ ExtractReturns
    \/ ExtractRaises
    \/ ReturnResults

Spec == Init /\ [][Next]_vars

\* the event loop resumes a ready coroutine and every awaited call ends
FairSpec == Spec /\ WF_vars(Next)

TypeOK ==
    /\ pc \in {"idle", "loop", "extract", "returned", "raised"}
    /\ idx \in 1..(Len(ordered_tasks) + 1)
    /\ Len(results) = idx - 1
    /\ DOMAIN completed_results = {results[j].task.task_id : j \in 1..Len(results)}
    /\ (call # NoCall) = (pc = "extract")

(* ------------------------- auxiliary predicates ------------------------ *)
PlanIndices == 1..Len(task_plan)
TerminalStatus == {"COMPLETED", "FAILED"}

\* the ids of plan tasks that the i-th task of the plan depends on
PlanDeps(i) == Range(task_plan[i].depends_on) \cap PlanIds(task_plan)

IndexOfId(id) == CHOOSE i \in PlanIndices : task_plan[i].task_id = id

\* the plan indices reachable from the i-th task along depends_on
RECURSIVE ReachFrom(_, _)
ReachFrom(S, n) ==
    IF n = 0 THEN S
    ELSE ReachFrom(S \cup {IndexOfId(d) : d \in UNION {PlanDeps(i) : i \in S}}, n - 1)

DependsTransitively(i) ==
    ReachFrom({IndexOfId(d) : d \in PlanDeps(i)}, Len(task_plan))

HasCycle == \E i \in PlanIndices : i \in DependsTransitively(i)
InCycle(i) == i \in DependsTransitively(i)

\* positions of the results reported for the i-th task of the plan
ResultPositions(i) == {j \in 1..Len(results) : results[j].task = task_plan[i]}

\* positions of the trace events of a kind for a task id
Events(kind, id) ==
    {k \in 1..Len(trace) : trace[k].ev = kind /\ trace[k].task_id = id}

(* ------------------------------- claims -------------------------------- *)
\* C1: in an acyclic plan, whenever task A lists task B in depends_on, the
\* result of A comes at a later index of the returned list than the result of B
C1_DependentAfterDependency ==
    (pc = "returned" /\ ~HasCycle) =>
        \A a, b \in PlanIndices :
            task_plan[b].task_id \in Range(task_plan[a].depends_on) =>
                \E i \in ResultPositions(a), j \in ResultPositions(b) : j < i

\* a returned acyclic plan whose first task depends on a later one
C1_Witness ==
    /\ pc = "returned"
    /\ ~HasCycle
    /\ Len(task_plan) >= 2
    /\ task_plan[2].task_id \in Range(task_plan[1].depends_on)
    /\ results[1].task = task_plan[2]

\* C2: the returned list holds exactly one result per task of the plan,
\* whatever the plan (dangling ids, self-dependencies, cycles, unroutable
\* tasks, raising capabilities), and no task is routed twice
C2_ExactlyOneResultPerTask ==
    pc = "returned" =>
        /\ Len(results) = Len(task_plan)
        /\ \A i \in PlanIndices :
              /\ Cardinality(ResultPositions(i)) = 1
              /\ Cardinality(Events("route", task_plan[i].task_id)) = 1

\* a returned plan with a self-dependency, a dangling id, an unroutable
\* task and a raising capability
C2_Witness ==
    /\ pc = "returned"
    /\ Len(results) = 3
    /\ \E i \in PlanIndices : task_plan[i].task_id \in Range(task_plan[i].depends_on)
    /\ \E i \in PlanIndices : Range(task_plan[i].depends_on) \cap DanglingIds # {}
    /\ \E i \in PlanIndices : get_agent(task_plan[i]) = None
    /\ \E k \in 1..Len(trace) : trace[k].ev = "raise"

\* route_all_tasks called with a plan whose dependency graph has a cycle
CyclicInit == Init /\ HasCycle

\* the event loop resumes the coroutine and every awaited call ends
CyclicFairSpec == CyclicInit /\ [][Next]_vars /\ WF_vars(Next)

\* C3: on a plan with a dependency cycle route_all_tasks returns, and every
\* task of a cycle has a terminal result by then
C3_CyclicPlanTerminates ==
    <>( /\ pc = "returned"
        /\ \A i \in PlanIndices :
              InCycle(i) =>
                 /\ task_plan[i].task_id \in DOMAIN completed_results
                 /\ completed_results[task_plan[i].task_id].status \in TerminalStatus
                 /\ ResultPositions(i) # {} )

\* a returned plan in which two tasks depend on each other
C3_Witness ==
    /\ pc = "returned"
    /\ \E a, b \in PlanIndices :
          /\ a # b
          /\ task_plan[b].task_id \in Range(task_plan[a].depends_on)
          /\ task_plan[a].task_id \in Range(task_plan[b].depends_on)
          /\ ResultPositions(a) # {}
          /\ ResultPositions(b) # {}

\* C4: when no task of the plan has a dependency, the results come in the
\* declaration order of the tasks
C4_NoDependenciesDeclarationOrder ==
    (pc = "returned" /\ \A i \in PlanIndices : task_plan[i].depends_on = <<>>) =>
        /\ Len(results) = Len(task_plan)
        /\ \A i \in PlanIndices : results[i].task = task_plan[i]

\* a returned plan of three tasks without dependencies
C4_Witness ==
    /\ pc = "returned"
    /\ Len(task_plan) = 3
    /\ \A i \in PlanIndices : task_plan[i].depends_on = <<>>
    /\ Len(results) = 3

\* the state of the selection before the k-th result
DoneBefore(k) == {results[j].task.task_id : j \in 1..(k - 1)}
RemainingAt(k) == {i \in PlanIndices : task_plan[i].task_id \notin DoneBefore(k)}
ReadyAt(k) == {i \in RemainingAt(k) : PlanDeps(i) \subseteq DoneBefore(k)}
StalledBy(k) == \E m \in 1..k : ReadyAt(m) = {}
Earliest(S) == CHOOSE m \in S : \A x \in S : m <= x

\* C5: the results come in the stable topological order: each result is
\* that of the earliest task, in declaration order, among the unexecuted
\* tasks whose dependencies are all executed; once no task is ready, the
\* remaining tasks follow in declaration order
C5_StableTopologicalOrder ==
    pc = "returned" =>
        /\ Len(results) = Len(task_plan)
        /\ \A k \in 1..Len(results) :
              /\ RemainingAt(k) # {}
              /\ results[k].task =
                    task_plan[IF StalledBy(k) THEN Earliest(RemainingAt(k))
                              ELSE Earliest(ReadyAt(k))]

\* a returned plan where a later task ran first, then no task was ready
C5_Witness ==
    /\ pc = "returned"
    /\ Len(results) = 3
    /\ results[1].task # task_plan[1]
    /\ ~StalledBy(1)
    /\ StalledBy(2)

\* C6: in an acyclic plan, while agent.extract is awaited for a task, every
\* task of the plan it depends on has a terminal result, stored before
C6_ExtractAfterDependencies ==
    (pc = "extract" /\ ~HasCycle) =>
        \A d \in Range(CurrentTask.depends_on) \cap PlanIds(task_plan) :
            /\ d \in DOMAIN completed_results
            /\ completed_results[d].status \in TerminalStatus
            /\ \E k \in Events("done", d) :
                  \A x \in Events("extract", CurrentTask.task_id) : k < x

\* extraction awaited for the first declared task after the later task it
\* depends on has failed
C6_Witness ==
    /\ pc = "extract"
    /\ ~HasCycle
    /\ CurrentTask = task_plan[1]
    /\ \E d \in Range(CurrentTask.depends_on) \cap PlanIds(task_plan) :
          /\ d \in DOMAIN completed_results
          /\ completed_results[d].status = "FAILED"

\* the tasks whose routing has begun and that have no result yet
InFlight ==
    {id \in PlanIds(task_plan) : Events("route", id) # {} /\ Events("done", id) = {}}

\* C7: tasks run one at a time: when a task is routed or its extraction is
\* awaited, every task before it in execution order has a terminal result
\* and no task after it has begun; at most one task is in flight
C7_OneTaskAtATime ==
    /\ Cardinality(InFlight) <= 1
    /\ pc = "extract" => InFlight = {CurrentTask.task_id}
    /\ pc \in {"loop", "extract"} =>
          \A k \in 1..Len(ordered_tasks) :
              LET id == ordered_tasks[k].task_id
              IN  /\ k < idx => /\ id \in DOMAIN completed_results
                                /\ completed_results[id].status \in TerminalStatus
                                /\ Events("done", id) # {}
                  /\ k > idx => Events("route", id) = {}
                  /\ k = idx => (Events("route", id) # {}) = (pc = "extract")

\* the second of three tasks is suspended in its extraction call
C7_Witness ==
    /\ pc = "extract"
    /\ idx = 2
    /\ Len(ordered_tasks) = 3
    /\ Len(results) = 1
    /\ InFlight = {ordered_tasks[2].task_id}

\* every task the loop ran over has its result, at its position
AllOrderedTasksHaveResult ==
    /\ Len(results) = Len(ordered_tasks)
    /\ \A k \in 1..Len(ordered_tasks) : results[k].task = ordered_tasks[k]

\* C8: a task no capability resolves for gets a failed result (success
\* false, FAILED, no payload, an error naming the task), no extraction
\* call is made for it, and the other tasks of the plan are still executed
C8_NoAgentFailsTaskOnly ==
    /\ \A j \in 1..Len(results) :
          get_agent(results[j].task) = None =>
              /\ results[j].success = FALSE
              /\ results[j].status = "FAILED"
              /\ results[j].extraction_result = NoPayload
              /\ results[j].error = <<"No agent found for task: ", results[j].task.task_id>>
              /\ Events("extract", results[j].task.task_id) = {}
    /\ pc = "extract" => get_agent(CurrentTask) # None
    /\ pc = "returned" => AllOrderedTasksHaveResult
    /\ pc # "raised"

\* the first task had no capability and a later task completed
C8_Witness ==
    /\ pc = "returned"
    /\ Len(results) >= 2
    /\ get_agent(results[1].task) = None
    /\ \E j \in 2..Len(results) : results[j].success

\* C9: an exception raised by extract becomes a failed result whose error
\* is the exception message; it does not leave route_task or
\* route_all_tasks, and the tasks after it are executed
C9_ExceptionBecomesFailedResult ==
    /\ pc # "raised"
    /\ \A k \in 1..Len(trace) :
          trace[k].ev = "raise" =>
              /\ trace[k].task_id \in DOMAIN completed_results
              /\ LET r == completed_results[trace[k].task_id]
                 IN  /\ r.success = FALSE
                     /\ r.status = "FAILED"
                     /\ r.extraction_result = NoPayload
                     /\ r.error = <<trace[k].error>>
                     /\ \E j \in 1..Len(results) : results[j] = r
    /\ pc = "returned" =>
          /\ AllOrderedTasksHaveResult
          /\ \A k \in 1..Len(ordered_tasks) :
                Events("route", ordered_tasks[k].task_id) # {}

\* the first task raised and every later task was routed and has a result
C9_Witness ==
    /\ pc = "returned"
    /\ Len(results) >= 2
    /\ Events("raise", results[1].task.task_id) # {}
    /\ \E j \in 2..Len(results) : results[j].success

\* the extract call issued for a task id, if any
ExtractEventOf(id) == trace[CHOOSE k \in Events("extract", id) : TRUE]

\* C10: a dependency is forwarded as context only if it succeeded with a
\* payload; for T1 (no deps) raising and T2 depending on T1, T2 is executed
\* on the original content without a previous-results section and the
\* returned list is [failed T1, result of T2]
C10_OnlySuccessfulDependenciesForwarded ==
    /\ pc = "extract" =>
          /\ \A c \in Range(call.context) :
                /\ c.dep_id \in Range(CurrentTask.depends_on)
                /\ c.dep_id \in DOMAIN completed_results
                /\ completed_results[c.dep_id].success
                /\ completed_results[c.dep_id].extraction_result # NoPayload
          /\ "delimiter" \in DOMAIN call.extraction_content =>
                call.context # <<>>
    /\ ( /\ pc = "returned"
         /\ Len(task_plan) = 2
         /\ task_plan[1].depends_on = <<>>
         /\ task_plan[2].depends_on = <<task_plan[1].task_id>>
         /\ Events("raise", task_plan[1].task_id) # {} ) =>
            /\ Len(results) = 2
            /\ results[1].task = task_plan[1]
            /\ results[1].success = FALSE
            /\ results[1].status = "FAILED"
            /\ results[2].task = task_plan[2]
            /\ get_agent(task_plan[2]) # None =>
                  /\ Events("extract", task_plan[2].task_id) # {}
                  /\ ExtractEventOf(task_plan[2].task_id).extraction_content
                        = [content |-> content]

\* T1 raised, T2 depending on T1 was then extracted and completed
C10_Witness ==
    /\ pc = "returned"
    /\ Len(task_plan) = 2
    /\ task_plan[1].depends_on = <<>>
    /\ task_plan[2].depends_on = <<task_plan[1].task_id>>
    /\ Events("raise", task_plan[1].task_id) # {}
    /\ Len(results) = 2
    /\ results[2].success

\* the plan with every depends_on entry that names no task of it removed
WithoutDangling(tasks) ==
    [i \in 1..Len(tasks) |->
        [tasks[i] EXCEPT !.depends_on =
            SelectSeq(@, LAMBDA d : d \in PlanIds(tasks))]]

TaskIdsOf(tasks) == [k \in 1..Len(tasks) |-> tasks[k].task_id]
ResultTaskIds == [k \in 1..Len(results) |-> results[k].task.task_id]

\* C11: a depends_on entry naming no task of the plan raises no error, adds
\* no context entry and no fragment, and leaves the execution order what it
\* is for the same plan without that entry
C11_DanglingDependencyIsVacuous ==
    /\ pc # "raised"
    /\ pc = "extract" =>
          /\ \A c \in Range(call.context) : c.dep_id \in PlanIds(task_plan)
          /\ Range(CurrentTask.depends_on) \cap PlanIds(task_plan) = {} =>
                call.extraction_content = [content |-> content]
    /\ pc = "returned" =>
          ResultTaskIds = TaskIdsOf(OrderedTasks(WithoutDangling(task_plan)))

\* the first declared task depends only on a dangling id, ran first on the
\* bare content, and another task ran after it
C11_Witness ==
    /\ pc = "returned"
    /\ Len(results) >= 2
    /\ Len(task_plan[1].depends_on) = 1
    /\ Range(task_plan[1].depends_on) \subseteq DanglingIds
    /\ results[1].task = task_plan[1]
    /\ Events("extract", task_plan[1].task_id) # {}
    /\ ExtractEventOf(task_plan[1].task_id).extraction_content = [content |-> content]

(* --------------------------- Python strings ---------------------------- *)
\* a str is the sequence of its characters
UpperCaseLetters ==
    <<"A", "B", "C", "D", "E", "F", "G", "H", "I", "J", "K", "L", "M",
      "N", "O", "P", "Q", "R", "S", "T", "U", "V", "W", "X", "Y", "Z">>
LowerCaseLetters ==
    <<"a", "b", "c", "d", "e", "f", "g", "h", "i", "j", "k", "l", "m",
      "n", "o", "p", "q", "r", "s", "t", "u", "v", "w", "x", "y", "z">>
Whitespace == {" ", "\n", "\t"}

LowerChar(c) ==
    IF \E k \in DOMAIN UpperCaseLetters : UpperCaseLetters[k] = c
    THEN LowerCaseLetters[CHOOSE k \in DOMAIN UpperCaseLetters : UpperCaseLetters[k] = c]
    ELSE c

\* str.lower()
lower(s) == [i \in 1..Len(s) |-> LowerChar(s[i])]

\* str.strip()
strip(s) ==
    LET kept == {i \in 1..Len(s) : s[i] \notin Whitespace}
    IN  IF kept = {} THEN <<>>
        ELSE SubSeq(s, CHOOSE i \in kept : \A j \in kept : i <= j,
                       CHOOSE i \in kept : \A j \in kept : j <= i)

\* sub in s
Contains(sub, s) ==
    \E i \in 0..(Len(s) - Len(sub)) : SubSeq(s, i + 1, i + Len(sub)) = sub

(* -------------------- BaseL3Agent.extract, in detail ------------------- *)
ItemsAgents == {"action_items_agent", "risks_agent", "decisions_agent"}

\* the empty_result property of each agent
empty_result(agent) ==
    CASE agent \in ItemsAgents ->
           [model |-> "ItemsResult",
            fields |-> [items |-> <<>>, source_task_id |-> None]]
      [] agent = "knowledge_retrieval_agent" ->
           [model |-> "KnowledgeResult",
            fields |-> [project |-> None, items |-> <<>>, source_task_id |-> None]]
      [] agent = "qna_agent" ->
           [model |-> "QnAResponse",
            fields |-> [response |-> "Unable to formulate response due to insufficient context.",
                        what_i_need |-> <<"More context required">>,
                        source_task_id |-> None]]
      [] agent = "evaluation_agent" ->
           [model |-> "EvaluationResult",
            fields |-> [relevance |-> "PASS", accuracy |-> "PASS", tone |-> "PASS",
                        gaps_acknowledged |-> "PASS", result |-> "APPROVED",
                        feedback |-> None, source_task_id |-> None]]
      [] agent = "message_delivery_agent" ->
           [model |-> "MessageDeliveryResult",
            fields |-> [channel |-> "email", recipient |-> "Unknown",
                        delivery_status |-> "PENDING", source_task_id |-> None]]

\* dict.get(key, default) on a JSON object
Field(data, k, default) == IF k \in DOMAIN data THEN data[k] ELSE default

PassFail == {"PASS", "FAIL"}
EvaluationOutcomes == {"APPROVED", "REJECTED", "NEEDS_REVISION"}

\* the JSON objects the service may answer with, per agent
JsonObjects(agent) ==
    CASE agent \in ItemsAgents ->
           { [items |-> <<>>], [items |-> <<"item-1">>],
             [items |-> <<"item-1">>, source_task_id |-> "TASK-777"] }
      [] agent = "knowledge_retrieval_agent" ->
           { [items |-> <<>>], [project |-> "PRJ-ALPHA", items |-> <<"item-1">>] }
      [] agent = "qna_agent" ->
           { [response |-> "answer"], [what_i_need |-> <<"owner">>] }
      [] agent = "evaluation_agent" ->
           { [relevance |-> "PASS"], [result |-> "MAYBE"] } \cup
           [relevance : PassFail, accuracy : PassFail, tone : PassFail,
            gaps_acknowledged : PassFail, result : EvaluationOutcomes]
      [] agent = "message_delivery_agent" ->
           { [channel |-> "slack", recipient |-> "Sarah"], [channel |-> "slack"] }

\* what client.complete may return: text holding no JSON, a JSON array, or
\* a JSON object
RawResponses(agent) ==
    { [kind |-> "text"], [kind |-> "array"] } \cup
    { [kind |-> "object", data |-> d] : d \in JsonObjects(agent) }

\* what client.complete may raise
ServiceErrors == {"API error 500: internal error", "Request timed out"}

\* result_model.model_validate(data): the model with its defaults filled
\* in, or a ValidationError
model_validate(agent, data) ==
    LET src == Field(data, "source_task_id", None)
    IN  CASE agent \in ItemsAgents ->
               [ok |-> TRUE,
                value |-> [model |-> "ItemsResult",
                           fields |-> [items |-> Field(data, "items", <<>>),
                                       source_task_id |-> src]]]
          [] agent = "knowledge_retrieval_agent" ->
               [ok |-> TRUE,
                value |-> [model |-> "KnowledgeResult",
                           fields |-> [project |-> Field(data, "project", None),
                                       items |-> Field(data, "items", <<>>),
                                       source_task_id |-> src]]]
          [] agent = "qna_agent" ->
               IF "response" \in DOMAIN data
               THEN [ok |-> TRUE,
                     value |-> [model |-> "QnAResponse",
                                fields |-> [response |-> data.response,
                                            what_i_need |-> Field(data, "what_i_need", <<>>),
                                            source_task_id |-> src]]]
               ELSE [ok |-> FALSE]
          [] agent = "evaluation_agent" ->
               IF Field(data, "result", "APPROVED") \in EvaluationOutcomes
               THEN [ok |-> TRUE,
                     value |-> [model |-> "EvaluationResult",
                                fields |-> [relevance |-> Field(data, "relevance", "PASS"),
                                            accuracy |-> Field(data, "accuracy", "PASS"),
                                            tone |-> Field(data, "tone", "PASS"),
                                            gaps_acknowledged |-> Field(data, "gaps_acknowledged", "PASS"),
                                            result |-> Field(data, "result", "APPROVED"),
                                            feedback |-> Field(data, "feedback", None),
                                            source_task_id |-> src]]]
               ELSE [ok |-> FALSE]
          [] agent = "message_delivery_agent" ->
               IF {"channel", "recipient"} \subseteq DOMAIN data
               THEN [ok |-> TRUE,
                     value |-> [model |-> "MessageDeliveryResult",
                                fields |-> [channel |-> data.channel,
                                            recipient |-> data.recipient,
                                            delivery_status |-> Field(data, "delivery_status", "PENDING"),
                                            source_task_id |-> src]]]
               ELSE [ok |-> FALSE]

\* data["source_task_id"] = source_task_id, when the key is absent
WithSourceTaskId(data, source_task_id) ==
    IF source_task_id # None /\ "source_task_id" \notin DOMAIN data
    THEN [k \in DOMAIN data \cup {"source_task_id"} |->
             IF k = "source_task_id" THEN source_task_id ELSE data[k]]
    ELSE data

\* BaseL3Agent._parse_response: ValueError (no JSON in the text) and
\* ValidationError give the empty result; the TypeError of the item
\* assignment on a JSON array leaves the method
parse_response(agent, raw, source_task_id) ==
    CASE raw.kind = "text" -> [kind |-> "return", value |-> empty_result(agent)]
      [] raw.kind = "array" ->
           IF source_task_id # None
           THEN [kind |-> "raise", error |-> "list indices must be integers or slices, not str"]
           ELSE [kind |-> "return", value |-> empty_result(agent)]
      [] raw.kind = "object" ->
           LET validated == model_validate(agent, WithSourceTaskId(raw.data, source_task_id))
           IN  [kind |-> "return",
                value |-> IF validated.ok THEN validated.value ELSE empty_result(agent)]

\* variant: only the empty string is blank
IsBlank_NoStrip(c) == c = PyNone \/ c.value = <<>>

\* not content or not content.strip()
IsBlank(c) == c = PyNone \/ strip(c.value) = <<>>

\* variant: a failed service call leaves extract
BaseExtractResume_Propagate(agent, source_task_id, outcome) ==
    IF outcome.kind = "raise"
    THEN [kind |-> "raise", error |-> outcome.error]
    ELSE LET parsed == parse_response(agent, outcome.raw, source_task_id)
         IN  IF parsed.kind = "raise"
             THEN [kind |-> "return", value |-> empty_result(agent)]
             ELSE parsed

\* BaseL3Agent.extract after the awaited client.complete: the response is
\* parsed; except Exception returns the empty result
BaseExtractResume(agent, source_task_id, outcome) ==
    IF outcome.kind = "raise"
    THEN [kind |-> "return", value |-> empty_result(agent)]
    ELSE LET parsed == parse_response(agent, outcome.raw, source_task_id)
         IN  IF parsed.kind = "raise"
             THEN [kind |-> "return", value |-> empty_result(agent)]
             ELSE parsed

(* ------------------------- EvaluationAgent.extract --------------------- *)
ResponseLabel ==
    <<"R", "e", "s", "p", "o", "n", "s", "e", " ", "t", "o", " ",
      "e", "v", "a", "l", "u", "a", "t", "e", ":">>
ResponseWord == <<"r", "e", "s", "p", "o", "n", "s", "e">>

\* "Response to evaluate:" in content or "response" in content.lower()
has_response(chars) ==
    Contains(ResponseLabel, chars) \/ Contains(ResponseWord, lower(chars))

AutoApproved ==
    [model |-> "EvaluationResult",
     fields |-> [relevance |-> "PASS", accuracy |-> "PASS", tone |-> "PASS",
                 gaps_acknowledged |-> "PASS", result |-> "APPROVED",
                 feedback |-> "No explicit response to evaluate - extraction tasks completed successfully",
                 source_task_id |-> None]]

\* the number of criteria that are FAIL
Fails(f) ==
    Cardinality({k \in {"relevance", "accuracy", "tone", "gaps_acknowledged"} :
                    f[k] = "FAIL"})

\* the post-processing of a REJECTED result
Lenient(payload) ==
    IF payload.fields.result = "REJECTED" /\ Fails(payload.fields) <= 2
    THEN [payload EXCEPT !.fields.result = "APPROVED",
                         !.fields.feedback =
                             <<"Auto-approved with ", Fails(payload.fields),
                               " minor issues noted">>]
    ELSE payload

(* --------------------------- agent.extract ----------------------------- *)
\* agent.extract(content, task_id) up to its first await: it returns, it
\* raises, or it awaits client.complete
ExtractStart(agent, c) ==
    IF agent = "evaluation_agent"
    THEN IF c = PyNone
         THEN [kind |-> "raise", error |-> "argument of type 'NoneType' is not iterable"]
         ELSE IF ~has_response(c.value)
              THEN [kind |-> "return", value |-> AutoApproved]
              ELSE [kind |-> "await"]
    ELSE IF IsBlank(c)
         THEN [kind |-> "return", value |-> empty_result(agent)]
         ELSE [kind |-> "await"]

\* agent.extract from the end of the awaited client.complete on
ExtractResume(agent, source_task_id, outcome) ==
    LET base == BaseExtractResume(agent, source_task_id, outcome)
    IN  IF agent = "evaluation_agent" /\ base.kind = "return"
        THEN [base EXCEPT !.value = Lenient(@)]
        ELSE base

\* route_task around the outcome of agent.extract
RoutingResultOf(task, agent, outcome) ==
    IF outcome.kind = "return"
    THEN SuccessResult(task, agent, outcome.value)
    ELSE HandleExtractException(task, outcome.error).result

(* ------------------------ one route_task call -------------------------- *)
\* the tasks a plan may hold, by agent name and domain
RoutedTasks ==
    { L1Task("TASK-001", <<>>, [l3_agent |-> a, domain |-> d]) :
        a \in L3_AGENTS \cup {None, "summarizer"},
        d \in VALID_DOMAINS \cup {"GENERAL"} }

\* the content arguments
RoutedContents ==
    { PyNone, PyStr(<<>>), PyStr(<<" ", "\n">>), PyStr(<<"o", "k">>),
      PyStr(<<" ", "R", "E", "S", "P", "O", "N", "S", "E", "?">>),
      PyStr(ResponseLabel \o <<" ", "o", "k">>) }

SchedulerIdle ==
    /\ task_plan = <<>>
    /\ content = "message body"
    /\ pc = "idle"
    /\ ordered_tasks = <<>>
    /\ idx = 1
    /\ results = <<>>
    /\ completed_results = EmptyDict
    /\ call = NoCall
    /\ trace = <<>>

RouteTaskInit ==
    /\ SchedulerIdle
    /\ OrchestrateIdle
    /\ TimelineIdle
    /\ ClientIdle
    /\ ExtractJsonIdle
    /\ StorageIdle
    /\ PairIdle
    /\ ContextIdle
    /\ FilterIdle
    /\ rt_pc = "called"
    /\ rt_task \in RoutedTasks
    /\ rt_content \in RoutedContents
    /\ rt_service = <<>>
    /\ rt_result = [status |-> None]

rt_agent == get_agent(rt_task)

\* no capability resolves: the failed result is returned at once
RtNoAgent ==
    /\ rt_pc = "called"
    /\ rt_agent = None
    /\ rt_result' = NoAgentResult(rt_task)
    /\ rt_pc' = "returned"
    /\ UNCHANGED <<rt_task, rt_content, rt_service>>
    /\ UNCHANGED outside_route_task

\* agent.extract ends before any service call
RtExtractEndsEarly ==
    /\ rt_pc = "called"
    /\ rt_agent # None
    /\ ExtractStart(rt_agent, rt_content).kind # "await"
    /\ rt_result' = RoutingResultOf(rt_task, rt_agent, ExtractStart(rt_agent, rt_content))
    /\ rt_pc' = "returned"
    /\ UNCHANGED <<rt_task, rt_content, rt_service>>
    /\ UNCHANGED outside_route_task

\* agent.extract awaits client.complete
RtAwaitComplete ==
    /\ rt_pc = "called"
    /\ rt_agent # None
    /\ ExtractStart(rt_agent, rt_content).kind = "await"
    /\ rt_pc' = "awaiting"
    /\ UNCHANGED <<rt_task, rt_content, rt_service, rt_result>>
    /\ UNCHANGED outside_route_task

\* the end of route_task once client.complete has ended with outcome
RtFinish(outcome) ==
    /\ rt_service' = Append(rt_service, outcome)
    /\ rt_result' = RoutingResultOf(rt_task, rt_agent,
                        ExtractResume(rt_agent, rt_task.task_id, outcome))
    /\ rt_pc' = "returned"
    /\ UNCHANGED <<rt_task, rt_content>>
    /\ UNCHANGED outside_route_task

\* client.complete returns a response
RtCompleteReturns ==
    /\ rt_pc = "awaiting"
    /\ \E raw \in RawResponses(rt_agent) : RtFinish([kind |-> "return", raw |-> raw])

\* client.complete raises
RtCompleteRaises ==
    /\ rt_pc = "awaiting"
    /\ \E e \in ServiceErrors : RtFinish([kind |-> "raise", error |-> e])

RouteTaskNext ==
    \/ RtNoAgent
    \/ RtExtractEndsEarly
    \/ RtAwaitComplete
    \/ RtCompleteReturns
    \/ RtCompleteRaises

RouteTaskSpec == RouteTaskInit /\ [][RouteTaskNext]_vars

\* C12: while a routed task executes, a failure of the extraction service
\* gives the task a failed routing result (success false, status FAILED,
\* error set), never a COMPLETED one with success true
C12_ServiceFailureFailsTask ==
    (rt_pc = "returned" /\ \E k \in 1..Len(rt_service) : rt_service[k].kind = "raise") =>
        /\ rt_result.success = FALSE
        /\ rt_result.status = "FAILED"
        /\ rt_result.error # NoError

\* the result model of each agent
ResultModelOf(agent) ==
    CASE agent \in ItemsAgents -> "ItemsResult"
      [] agent = "knowledge_retrieval_agent" -> "KnowledgeResult"
      [] agent = "qna_agent" -> "QnAResponse"
      [] agent = "evaluation_agent" -> "EvaluationResult"
      [] agent = "message_delivery_agent" -> "MessageDeliveryResult"

\* the same task under other identifiers and dependency lists
SameTarget(task) ==
    { [task EXCEPT !.task_id = id, !.depends_on = deps] :
        id \in {"TASK-001", "TASK-002"}, deps \in {<<>>, <<"TASK-001">>, <<"TASK-999">>} }

\* C13: a task naming a known agent resolves to that agent whatever its
\* domain; otherwise it resolves to the default of its domain, and to no
\* capability when the domain has none; the resolution depends on the
\* agent name and the domain only
C13_AgentResolution ==
    LET name == rt_task.l3_agent
        domain == rt_task.domain
        expected ==
            IF name \in L3_AGENTS THEN agent_map[name]
            ELSE IF domain \in VALID_DOMAINS THEN domain_defaults[domain]
            ELSE None
    IN  rt_pc = "returned" =>
            /\ \A t \in SameTarget(rt_task) : get_agent(t) = expected
            /\ expected = None => rt_result = NoAgentResult(rt_task)
            /\ (expected # None /\ rt_result.success) =>
                  rt_result.extraction_result.model = ResultModelOf(expected)

\* a task naming the Q&A agent in a domain whose default is another agent
\* was answered by the Q&A agent
C13_Witness ==
    /\ rt_pc = "returned"
    /\ rt_task.l3_agent = "qna"
    /\ rt_task.domain = "TRACKING_EXECUTION"
    /\ rt_result.success
    /\ rt_result.extraction_result.model = "QnAResponse"
    /\ rt_result.extraction_result.fields.response = "answer"

(* ------------------------ per-task state machine ----------------------- *)
\* the status recorded in the result of the task with this id
ResultStatusOf(id) ==
    LET at == {j \in 1..Len(results) : results[j].task.task_id = id}
    IN  IF at = {} THEN "NONE" ELSE results[CHOOSE j \in at : TRUE].status

\* the state of the task with this id after the first k events of the run:
\* PENDING until route_task is entered, ROUTING until the capability is
\* awaited, EXECUTING until route_task returns, then the returned status
StatusAfter(k, id) ==
    LET mine == {j \in 1..k : trace[j].task_id = id}
    IN  IF mine = {} THEN "PENDING"
        ELSE LET last == trace[CHOOSE j \in mine : \A i \in mine : i <= j].ev
             IN  CASE last = "route"   -> "ROUTING"
                   [] last = "extract" -> "EXECUTING"
                   [] last = "raise"   -> "EXECUTING"
                   [] last = "done"    -> ResultStatusOf(id)

\* the transitions the task with this id has made so far
TransitionsOf(id) ==
    { <<StatusAfter(k - 1, id), StatusAfter(k, id)>> : k \in 1..Len(trace) }
        \ { <<st, st>> : st \in {"PENDING", "ROUTING", "EXECUTING", "COMPLETED", "FAILED"} }

AllowedTransitions ==
    { <<"PENDING", "ROUTING">>, <<"ROUTING", "EXECUTING">>, <<"ROUTING", "FAILED">>,
      <<"EXECUTING", "COMPLETED">>, <<"EXECUTING", "FAILED">> }

TaskStateMachine ==
    \A i \in PlanIndices :
        LET id == task_plan[i].task_id
        IN  /\ TransitionsOf(id) \subseteq AllowedTransitions
            /\ <<"ROUTING", "FAILED">> \in TransitionsOf(id) <=>
                  (get_agent(task_plan[i]) = None /\ Events("route", id) # {})
            /\ pc = "returned" => StatusAfter(Len(trace), id) \in TerminalStatus

\* a result that has been recorded stays as it is
RecordedResultsKept ==
    \A j \in 1..Len(results) : Len(results') >= j /\ results'[j] = results[j]

\* C14: every task goes PENDING -> ROUTING -> EXECUTING -> COMPLETED or
\* FAILED, with ROUTING -> FAILED exactly when no capability resolves; no
\* other transition happens, a terminal state never changes, and every
\* task is terminal once the execution has returned
C14_TaskStateMachine == []TaskStateMachine /\ [][RecordedResultsKept]_vars

\* a returned plan with a task failed in routing, a task failed while
\* executing and a task completed
C14_Witness ==
    /\ pc = "returned"
    /\ \E a, b, c \in PlanIndices :
          /\ TransitionsOf(task_plan[a].task_id) =
                { <<"PENDING", "ROUTING">>, <<"ROUTING", "FAILED">> }
          /\ TransitionsOf(task_plan[b].task_id) =
                { <<"PENDING", "ROUTING">>, <<"ROUTING", "EXECUTING">>,
                  <<"EXECUTING", "FAILED">> }
          /\ TransitionsOf(task_plan[c].task_id) =
                { <<"PENDING", "ROUTING">>, <<"ROUTING", "EXECUTING">>,
                  <<"EXECUTING", "COMPLETED">> }

(* ------------------------------ planner -------------------------------- *)
\* largest number of candidate tasks in a planner response
MaxCandidates == 3

Priorities == {"high", "medium", "low"}

\* the candidate tasks a response may hold: two well-formed ones, one
\* without domain and description, one with a domain and one with a
\* priority outside the enumerations
Candidates ==
    { [task_id |-> "TASK-001", domain |-> "TRACKING_EXECUTION",
       description |-> "Extract action items"],
      [task_id |-> "TASK-002", domain |-> "COMMUNICATION_COLLABORATION",
       description |-> "Formulate response", l3_agent |-> "qna",
       priority |-> "high", depends_on |-> <<"TASK-001">>],
      [task_id |-> "TASK-003"],
      [task_id |-> "TASK-004", domain |-> "INVALID_DOMAIN", description |-> "Test"],
      [task_id |-> "TASK-005", domain |-> "LEARNING_IMPROVEMENT",
       description |-> "Extract decisions", priority |-> "urgent"] }

CandidateLists == UNION { [1..n -> Candidates] : n \in 0..MaxCandidates }

\* what the planner's client.complete may return: text holding no JSON, a
\* JSON array, or a JSON object whose "tasks" is a list, null or absent
PlannerResponses ==
    { [kind |-> "text"], [kind |-> "array"],
      [kind |-> "object", data |-> [note |-> "no tasks"]],
      [kind |-> "object", data |-> [tasks |-> [type |-> "null"]]] } \cup
    { [kind |-> "object", data |-> [tasks |-> [type |-> "list", items |-> cs]]] :
        cs \in CandidateLists }

\* L1Task.model_validate(task_data): the task with its defaults filled in,
\* or a ValidationError
ValidateTask(data) ==
    IF /\ {"task_id", "domain", "description"} \subseteq DOMAIN data
       /\ data.domain \in VALID_DOMAINS
       /\ Field(data, "priority", "medium") \in Priorities
    THEN [ok |-> TRUE,
          value |-> [task_id |-> data.task_id, domain |-> data.domain,
                     l3_agent |-> Field(data, "l3_agent", None),
                     description |-> data.description,
                     priority |-> Field(data, "priority", "medium"),
                     depends_on |-> Field(data, "depends_on", <<>>)]]
    ELSE [ok |-> FALSE]

\* variant: the first invalid candidate ends the loop
ParseTasks_StopAtInvalid(candidates) ==
    LET F[k \in 0..Len(candidates)] ==
            IF k = 0 THEN <<>>
            ELSE IF \A j \in 1..k : ValidateTask(candidates[j]).ok
                 THEN Append(F[k - 1], ValidateTask(candidates[k]).value)
                 ELSE F[k - 1]
    IN  F[Len(candidates)]

\* the loop over data["tasks"]: a candidate that validates is appended, one
\* that raises ValidationError is skipped
ParseTasks(candidates) ==
    LET F[k \in 0..Len(candidates)] ==
            IF k = 0 THEN <<>>
            ELSE IF ValidateTask(candidates[k]).ok
                 THEN Append(F[k - 1], ValidateTask(candidates[k]).value)
                 ELSE F[k - 1]
    IN  F[Len(candidates)]

\* the try block of L1Orchestrator._parse_response
ParseResponseBody(raw) ==
    CASE raw.kind = "text" ->
           [kind |-> "raise", class |-> "ValueError",
            error |-> "Could not extract JSON from response"]
      [] raw.kind = "array" ->
           [kind |-> "raise", class |-> "AttributeError",
            error |-> "'list' object has no attribute 'get'"]
      [] raw.kind = "object" ->
           IF "tasks" \notin DOMAIN raw.data
           THEN [kind |-> "return", value |-> <<>>]
           ELSE IF raw.data.tasks.type = "null"
                THEN [kind |-> "raise", class |-> "TypeError",
                      error |-> "'NoneType' object is not iterable"]
                ELSE [kind |-> "return", value |-> ParseTasks(raw.data.tasks.items)]

\* L1Orchestrator._parse_response: the tasks of the returned L1TaskPlan;
\* except ValueError and except Exception both return the empty plan
L1_parse_response(raw) ==
    LET body == ParseResponseBody(raw)
    IN  IF body.kind = "raise" THEN <<>> ELSE body.value

L1OrchestratorResult(success, tasks, error) ==
    [success |-> success, task_plan |-> tasks, error |-> error]

\* L1Orchestrator.plan_tasks from the end of the awaited client.complete on
PlanTasksResume(outcome) ==
    IF outcome.kind = "raise"
    THEN L1OrchestratorResult(FALSE, <<>>, <<outcome.error>>)
    ELSE L1OrchestratorResult(TRUE, L1_parse_response(outcome.raw), NoError)

(* ----------------------------- orchestrate ----------------------------- *)
\* the stages of orchestrate after a successful planning, in order
PipelineStages ==
    <<"save_task_plan", "route_all_tasks", "save_extraction",
      "render_orchestration_map", "save_orchestration_map">>

\* messages of the exceptions a stage may raise
StageErrors == {"database is locked"}

\* raise HTTPException(status_code=500, ...): no result object is returned
PlanningFailedResponse(l1) ==
    [kind |-> "http_error", status_code |-> 500,
     detail |-> <<"L1 planning failed: ">> \o l1.error]

\* raw_response of orchestrate
SuccessResponse(l1) ==
    [kind |-> "result", success |-> TRUE, task_count |-> Len(l1.task_plan),
     error |-> NoError]

\* error_response of orchestrate
ErrorResponse(e) ==
    [kind |-> "result", success |-> FALSE, task_count |-> 0, error |-> <<e>>]

OrchestrateInit ==
    /\ SchedulerIdle
    /\ RouteTaskIdle
    /\ TimelineIdle
    /\ ClientIdle
    /\ ExtractJsonIdle
    /\ StorageIdle
    /\ PairIdle
    /\ ContextIdle
    /\ FilterIdle
    /\ or_pc = "called"
    /\ or_timeline = None
    /\ or_service = <<>>
    /\ or_l1 = [success |-> None]
    /\ or_stages = <<>>
    /\ or_response = [kind |-> None]

\* plan_tasks up to the awaited client.complete: the timeline analysis is
\* tried, and its failure only changes the prompt
OrCallPlanner ==
    /\ or_pc = "called"
    /\ or_timeline' \in {"analysed", "failed"}
    /\ or_pc' = "planning"
    /\ UNCHANGED <<or_service, or_l1, or_stages, or_response>>
    /\ UNCHANGED outside_orchestrate

\* the end of plan_tasks once client.complete has ended with outcome
OrPlanned(outcome) ==
    /\ or_service' = Append(or_service, outcome)
    /\ or_l1' = PlanTasksResume(outcome)
    /\ or_pc' = "planned"
    /\ UNCHANGED <<or_timeline, or_stages, or_response>>
    /\ UNCHANGED outside_orchestrate

\* the planner's client.complete returns a response
OrCompleteReturns ==
    /\ or_pc = "planning"
    /\ \E raw \in PlannerResponses : OrPlanned([kind |-> "return", raw |-> raw])

\* the planner's client.complete raises
OrCompleteRaises ==
    /\ or_pc = "planning"
    /\ \E e \in ServiceErrors : OrPlanned([kind |-> "raise", error |-> e])

\* if not l1_result.success: the HTTPException leaves orchestrate
OrPlanningFailed ==
    /\ or_pc = "planned"
    /\ ~or_l1.success
    /\ or_response' = PlanningFailedResponse(or_l1)
    /\ or_pc' = "done"
    /\ UNCHANGED <<or_timeline, or_service, or_l1, or_stages>>
    /\ UNCHANGED outside_orchestrate

\* the stages run and the result is returned
OrPipelineReturns ==
    /\ or_pc = "planned"
    /\ or_l1.success
    /\ or_stages' = PipelineStages
    /\ or_response' = SuccessResponse(or_l1)
    /\ or_pc' = "done"
    /\ UNCHANGED <<or_timeline, or_service, or_l1>>
    /\ UNCHANGED outside_orchestrate

\* a stage raises: except Exception returns the error response
OrPipelineRaises ==
    /\ or_pc = "planned"
    /\ or_l1.success
    /\ \E k \in 1..Len(PipelineStages), e \in StageErrors :
          /\ or_stages' = SubSeq(PipelineStages, 1, k)
          /\ or_response' = ErrorResponse(e)
    /\ or_pc' = "done"
    /\ UNCHANGED <<or_timeline, or_service, or_l1>>
    /\ UNCHANGED outside_orchestrate

OrchestrateNext ==
    \/ OrCallPlanner
    \/ OrCompleteReturns
    \/ OrCompleteRaises
    \/ OrPlanningFailed
    \/ OrPipelineReturns
    \/ OrPipelineRaises

OrchestrateSpec == OrchestrateInit /\ [][OrchestrateNext]_vars

\* the candidates of the planner's response, <<>> when it holds no list
CandidatesOf(outcome) ==
    IF /\ outcome.kind = "return"
       /\ outcome.raw.kind = "object"
       /\ "tasks" \in DOMAIN outcome.raw.data
       /\ outcome.raw.data.tasks.type = "list"
    THEN outcome.raw.data.tasks.items
    ELSE <<>>

\* the k-th smallest element of a set of numbers
KthOf(S, k) == CHOOSE i \in S : Cardinality({j \in S : j < i}) = k - 1

\* C15: plan_tasks always returns a plan; its tasks are exactly the
\* candidates of the response that validate, in response order, whatever
\* the other candidates are; a response that cannot be parsed and a failed
\* service call give a plan without tasks
C15_PlannerNeverFailsOutward ==
    or_pc \in {"planned", "done"} =>
        LET cs == CandidatesOf(or_service[1])
            valid == {i \in 1..Len(cs) : ValidateTask(cs[i]).ok}
            tasks == or_l1.task_plan
        IN  /\ or_l1.success \in BOOLEAN
            /\ Len(tasks) = Cardinality(valid)
            /\ \A k \in 1..Len(tasks) :
                  tasks[k] = ValidateTask(cs[KthOf(valid, k)]).value

\* a response whose invalid candidate stands between two valid ones gave
\* the two valid tasks in response order
C15_Witness ==
    /\ or_pc = "planned"
    /\ Len(CandidatesOf(or_service[1])) = 3
    /\ ValidateTask(CandidatesOf(or_service[1])[1]).ok
    /\ ~ValidateTask(CandidatesOf(or_service[1])[2]).ok
    /\ ValidateTask(CandidatesOf(or_service[1])[3]).ok
    /\ Len(or_l1.task_plan) = 2
    /\ or_l1.task_plan[1].task_id = "TASK-002"
    /\ or_l1.task_plan[2].task_id = "TASK-001"

\* the planner's service call failed or its response held no plan
PlanningYieldedNoPlan ==
    \/ or_service[1].kind = "raise"
    \/ or_service[1].raw.kind \in {"text", "array"}

\* C16: when planning yields no tasks because the planner's service call
\* failed or its response could not be parsed, the orchestration goes on
\* with the empty plan and returns a result object with a success flag,
\* not a hard failure response
C16_EmptyPlanContinues ==
    (or_pc = "done" /\ PlanningYieldedNoPlan) =>
        /\ or_response.kind = "result"
        /\ or_response.success \in BOOLEAN
        /\ or_stages # <<>>

(* --------------------------- timeline engine --------------------------- *)
\* largest number of events in a timeline response
MaxEvents == 2

\* bounds of TimelineEvent.urgency_score
MinUrgency == 1
MaxUrgency == 10
\* the urgency score from which risk assessment is recommended
HighUrgency == 8

Certainties == {"low", "medium", "high"}
DateTypes == {"explicit", "relative", "period"}

\* the text "YYYY-MM-DD" is the sequence of its three numbers
\* the dates normalized may hold: an earlier month with a later day, the
\* day of today, a later year with an earlier month and day, and a text of
\* the right format that names no day of the calendar
NormalizedTexts == { <<2025, 5, 20>>, <<2025, 6, 15>>, <<2026, 1, 1>>, <<2025, 2, 30>> }

\* datetime.now().date() at the time of the analysis
Todays == { <<2025, 6, 15>> }

IsLeapYear(y) == (y % 4 = 0 /\ y % 100 # 0) \/ y % 400 = 0

DaysInMonth(y, m) ==
    IF m = 2 THEN (IF IsLeapYear(y) THEN 29 ELSE 28)
    ELSE IF m \in {4, 6, 9, 11} THEN 30 ELSE 31

\* datetime.strptime(text, "%Y-%m-%d").date(): the date, or ValueError
strptime(text) ==
    IF /\ Len(text) = 3
       /\ text[2] \in 1..12
       /\ text[3] \in 1..DaysInMonth(text[1], text[2])
    THEN [ok |-> TRUE, date |-> [year |-> text[1], month |-> text[2], day |-> text[3]]]
    ELSE [ok |-> FALSE]

\* date < date
DateLess(a, b) ==
    \/ a.year < b.year
    \/ a.year = b.year /\ a.month < b.month
    \/ a.year = b.year /\ a.month = b.month /\ a.day < b.day

\* the items of a response: every well-formed event, an event that leaves
\* is_deadline and urgency_score to their defaults, an event whose score is
\* above the maximum and an item without description and date
EventItems ==
    { [event_id |-> "EVT", description |-> "release",
       date |-> [raw |-> "the date", normalized |-> n, type |-> "explicit", certainty |-> c],
       is_deadline |-> dl, urgency_score |-> u] :
        n \in NormalizedTexts, c \in Certainties, dl \in BOOLEAN,
        u \in {HighUrgency - 1, HighUrgency} } \cup
    { [event_id |-> "EVT", description |-> "kickoff",
       date |-> [raw |-> "soon", normalized |-> <<2025, 5, 20>>, type |-> "relative",
                 certainty |-> "low"]],
      [event_id |-> "EVT", description |-> "release",
       date |-> [raw |-> "the date", normalized |-> <<2025, 5, 20>>, type |-> "explicit",
                 certainty |-> "high"],
       is_deadline |-> TRUE, urgency_score |-> MaxUrgency + 1],
      [event_id |-> "EVT"] }

EventItemLists == UNION { [1..n -> EventItems] : n \in 0..MaxEvents }

\* what the engine's client.complete may return
TimelineResponses ==
    { [kind |-> "text"], [kind |-> "array"],
      [kind |-> "object", data |-> [note |-> "no events"]] } \cup
    { [kind |-> "object", data |-> [events |-> items]] : items \in EventItemLists }

\* TimelineEvent.model_validate(item)
ValidateEvent(item) ==
    IF /\ {"event_id", "description", "date"} \subseteq DOMAIN item
       /\ {"raw", "normalized", "type", "certainty"} \subseteq DOMAIN item.date
       /\ item.date.type \in DateTypes
       /\ item.date.certainty \in Certainties
       /\ Field(item, "urgency_score", MinUrgency) \in MinUrgency..MaxUrgency
    THEN [ok |-> TRUE,
          value |-> [event_id |-> item.event_id, description |-> item.description,
                     date |-> item.date,
                     is_deadline |-> Field(item, "is_deadline", FALSE),
                     urgency_score |-> Field(item, "urgency_score", MinUrgency)]]
    ELSE [ok |-> FALSE]

\* variant: the first invalid item ends the loop
ParseEvents_StopAtInvalid(items) ==
    LET F[k \in 0..Len(items)] ==
            IF k = 0 THEN <<>>
            ELSE IF \A j \in 1..k : ValidateEvent(items[j]).ok
                 THEN Append(F[k - 1], ValidateEvent(items[k]).value)
                 ELSE F[k - 1]
    IN  F[Len(items)]

\* the loop over data["events"]
ParseEvents(items) ==
    LET F[k \in 0..Len(items)] ==
            IF k = 0 THEN <<>>
            ELSE IF ValidateEvent(items[k]).ok
                 THEN Append(F[k - 1], ValidateEvent(items[k]).value)
                 ELSE F[k - 1]
    IN  F[Len(items)]

\* TimelineEngine._extract_timeline_events from the end of the awaited
\* client.complete on: except Exception returns no event
extract_timeline_events(outcome) ==
    IF outcome.kind = "raise" THEN <<>>
    ELSE CASE outcome.raw.kind = "text"  -> <<>>
           [] outcome.raw.kind = "array" -> <<>>
           [] outcome.raw.kind = "object" ->
                IF "events" \in DOMAIN outcome.raw.data
                THEN ParseEvents(outcome.raw.data.events)
                ELSE <<>>

TimelineConflict(conflict_id, description, severity) ==
    [conflict_id |-> conflict_id, description |-> description, severity |-> severity]

\* an f-string: its text with the values of its fields
Format(text, args) == [text |-> text, args |-> args]

\* variant: a deadline of today counts as past
PastDeadlineOf_TodayIsPast(event, today) ==
    IF ~event.is_deadline THEN <<>>
    ELSE LET parsed == strptime(event.date.normalized)
         IN  IF ~parsed.ok THEN <<>>
             ELSE IF DateLess(parsed.date, today) \/ parsed.date = today
                  THEN << TimelineConflict("TL-C-PAST",
                            Format("Deadline '{}' ({}) is in the past.",
                                   <<event.description, event.date.normalized>>),
                            "high") >>
                  ELSE IF parsed.date = today
                       THEN << TimelineConflict("TL-C-TODAY",
                                 Format("Deadline '{}' is today. High pressure.",
                                        <<event.description>>),
                                 "medium") >>
                       ELSE <<>>

\* the conflicts one event adds in check 1
PastDeadlineOf(event, today) ==
    IF ~event.is_deadline THEN <<>>
    ELSE LET parsed == strptime(event.date.normalized)
         IN  IF ~parsed.ok THEN <<>>
             ELSE IF DateLess(parsed.date, today)
                  THEN << TimelineConflict("TL-C-PAST",
                            Format("Deadline '{}' ({}) is in the past.",
                                   <<event.description, event.date.normalized>>),
                            "high") >>
                  ELSE IF parsed.date = today
                       THEN << TimelineConflict("TL-C-TODAY",
                                 Format("Deadline '{}' is today. High pressure.",
                                        <<event.description>>),
                                 "medium") >>
                       ELSE <<>>

\* check 1: past deadlines
PastDeadlines(events, today) ==
    LET F[k \in 0..Len(events)] ==
            IF k = 0 THEN <<>> ELSE F[k - 1] \o PastDeadlineOf(events[k], today)
    IN  F[Len(events)]

AsapWord == <<"a", "s", "a", "p">>
UrgentWord == <<"u", "r", "g", "e", "n", "t">>

\* variant: the words are searched in the text as it is
AmbiguousUrgency_CaseSensitive(events, text) ==
    IF /\ Contains(AsapWord, text) \/ Contains(UrgentWord, text)
       /\ ~\E k \in 1..Len(events) : events[k].is_deadline
    THEN << TimelineConflict("TL-C-AMBIGUOUS-URGENCY",
              Format("Message is marked URGENT/ASAP but has no explicit deadline.", <<>>),
              "medium") >>
    ELSE <<>>

\* check 2: immediate urgency with no date
AmbiguousUrgency(events, text) ==
    IF /\ Contains(AsapWord, lower(text)) \/ Contains(UrgentWord, lower(text))
       /\ ~\E k \in 1..Len(events) : events[k].is_deadline
    THEN << TimelineConflict("TL-C-AMBIGUOUS-URGENCY",
              Format("Message is marked URGENT/ASAP but has no explicit deadline.", <<>>),
              "medium") >>
    ELSE <<>>

\* variant: deadlines of any certainty count
MultipleDeadlines_AnyCertainty(events) ==
    LET deadlines == SelectSeq(events, LAMBDA e : e.is_deadline)
        dates == {deadlines[k].date.normalized : k \in 1..Len(deadlines)}
    IN  IF Len(deadlines) > 1 /\ Cardinality(dates) > 1
        THEN << TimelineConflict("TL-C-MULTIPLE-DEADLINES",
                  Format("Multiple conflicting deadlines found: {}", dates), "high") >>
        ELSE <<>>

\* check 3: conflicting deadlines
MultipleDeadlines(events) ==
    LET deadlines == SelectSeq(events, LAMBDA e : e.is_deadline /\ e.date.certainty = "high")
        dates == {deadlines[k].date.normalized : k \in 1..Len(deadlines)}
    IN  IF Len(deadlines) > 1 /\ Cardinality(dates) > 1
        THEN << TimelineConflict("TL-C-MULTIPLE-DEADLINES",
                  Format("Multiple conflicting deadlines found: {}", dates), "high") >>
        ELSE <<>>

\* TimelineEngine._detect_conflicts
detect_conflicts(events, text, today) ==
    PastDeadlines(events, strptime(today).date)
        \o AmbiguousUrgency(events, text)
        \o MultipleDeadlines(events)

\* variant: the urgency score must exceed the threshold
generate_recommendations_UrgencyAbove(events, conflicts) ==
    IF events = <<>> /\ conflicts = <<>> THEN <<>>
    ELSE LET uncertain_events == SelectSeq(events, LAMBDA e : e.date.certainty = "low")
         IN  (IF \E k \in 1..Len(conflicts) : conflicts[k].severity = "high"
              THEN << Format("URGENT: Clarify timeline conflicts immediately.", <<>>) >>
              ELSE <<>>)
             \o (IF uncertain_events # <<>>
                 THEN << Format("Clarify ambiguous dates: {}",
                                [k \in 1..Len(uncertain_events) |-> uncertain_events[k].date.raw]) >>
                 ELSE <<>>)
             \o (IF \E k \in 1..Len(events) : events[k].urgency_score > HighUrgency
                 THEN << Format("High urgency detected. Prioritize risk assessment.", <<>>) >>
                 ELSE <<>>)

\* TimelineEngine._generate_recommendations
generate_recommendations(events, conflicts) ==
    IF events = <<>> /\ conflicts = <<>> THEN <<>>
    ELSE LET uncertain_events == SelectSeq(events, LAMBDA e : e.date.certainty = "low")
         IN  (IF \E k \in 1..Len(conflicts) : conflicts[k].severity = "high"
              THEN << Format("URGENT: Clarify timeline conflicts immediately.", <<>>) >>
              ELSE <<>>)
             \o (IF uncertain_events # <<>>
                 THEN << Format("Clarify ambiguous dates: {}",
                                [k \in 1..Len(uncertain_events) |-> uncertain_events[k].date.raw]) >>
                 ELSE <<>>)
             \o (IF \E k \in 1..Len(events) : events[k].urgency_score >= HighUrgency
                 THEN << Format("High urgency detected. Prioritize risk assessment.", <<>>) >>
                 ELSE <<>>)

\* the message contents analysed: "Need it ASAP", "Urgently!", "by Friday"
TimelineContents ==
    { <<"N", "e", "e", "d", " ", "i", "t", " ", "A", "S", "A", "P">>,
      <<"U", "r", "g", "e", "n", "t", "l", "y", "!">>,
      <<"b", "y", " ", "F", "r", "i", "d", "a", "y">> }

TimelineInit ==
    /\ SchedulerIdle
    /\ RouteTaskIdle
    /\ OrchestrateIdle
    /\ ClientIdle
    /\ ExtractJsonIdle
    /\ StorageIdle
    /\ PairIdle
    /\ ContextIdle
    /\ FilterIdle
    /\ tl_pc = "called"
    /\ tl_content \in TimelineContents
    /\ tl_today \in Todays
    /\ tl_service = <<>>
    /\ tl_result = [events |-> <<>>]

\* analyze enters _extract_timeline_events and awaits client.complete
TlAwaitComplete ==
    /\ tl_pc = "called"
    /\ tl_pc' = "awaiting"
    /\ UNCHANGED <<tl_content, tl_today, tl_service, tl_result>>
    /\ UNCHANGED outside_timeline

\* the rest of analyze once client.complete has ended with outcome
TlAnalyzed(outcome) ==
    LET events == extract_timeline_events(outcome)
        conflicts == detect_conflicts(events, tl_content, tl_today)
    IN  /\ tl_service' = Append(tl_service, outcome)
        /\ tl_result' = [events |-> events, conflicts |-> conflicts,
                         recommendations |-> generate_recommendations(events, conflicts)]
        /\ tl_pc' = "returned"
        /\ UNCHANGED <<tl_content, tl_today>>
        /\ UNCHANGED outside_timeline

\* client.complete returns a response
TlCompleteReturns ==
    /\ tl_pc = "awaiting"
    /\ \E raw \in TimelineResponses : TlAnalyzed([kind |-> "return", raw |-> raw])

\* client.complete raises
TlCompleteRaises ==
    /\ tl_pc = "awaiting"
    /\ \E e \in ServiceErrors : TlAnalyzed([kind |-> "raise", error |-> e])

TimelineNext ==
    \/ TlAwaitComplete
    \/ TlCompleteReturns
    \/ TlCompleteRaises

TimelineSpec == TimelineInit /\ [][TimelineNext]_vars

\* the conflicts of the returned result that carry this id
ConflictsWithId(id) ==
    {k \in 1..Len(tl_result.conflicts) : tl_result.conflicts[k].conflict_id = id}

\* the returned events that satisfy a condition
EventsWhere(Cond(_)) ==
    {k \in 1..Len(tl_result.events) : Cond(tl_result.events[k])}

TimelineTypeOK ==
    tl_pc = "returned" =>
        /\ Len(tl_result.events) <= MaxEvents
        /\ \A k \in 1..Len(tl_result.conflicts) :
              tl_result.conflicts[k].severity \in Certainties

\* the deadline events of the returned result whose normalized date parses
\* and stands in this relation to today
DeadlinesDated(Rel(_, _)) ==
    EventsWhere(LAMBDA e :
        /\ e.is_deadline
        /\ strptime(e.date.normalized).ok
        /\ Rel(strptime(e.date.normalized).date, strptime(tl_today).date))

\* C17: every deadline event whose normalized date parses adds one high
\* conflict naming its description and date when the date is before today,
\* one medium conflict when it is today and none when it is later; events
\* that are no deadlines add no date conflict; one past deadline alone
\* gives exactly one conflict, of high severity
C17_DeadlineDateConflicts ==
    tl_pc = "returned" =>
        LET events == tl_result.events
            conflicts == tl_result.conflicts
            past == DeadlinesDated(LAMBDA d, t : DateLess(d, t))
            due == DeadlinesDated(LAMBDA d, t : d = t)
        IN  /\ Cardinality(ConflictsWithId("TL-C-PAST")) = Cardinality(past)
            /\ Cardinality(ConflictsWithId("TL-C-TODAY")) = Cardinality(due)
            /\ \A k \in ConflictsWithId("TL-C-PAST") :
                  /\ conflicts[k].severity = "high"
                  /\ \E j \in past :
                        conflicts[k].description.args =
                            <<events[j].description, events[j].date.normalized>>
            /\ \A k \in ConflictsWithId("TL-C-TODAY") : conflicts[k].severity = "medium"
            /\ (Len(events) = 1 /\ past = {1}) =>
                  (Len(conflicts) = 1 /\ conflicts[1].severity = "high")

\* one past deadline alone, in a message that says ASAP, gave one high
\* conflict naming the event and its date
C17_Witness ==
    /\ tl_pc = "returned"
    /\ Len(tl_result.events) = 1
    /\ tl_result.events[1].is_deadline
    /\ tl_result.events[1].date.normalized = <<2025, 5, 20>>
    /\ Contains(AsapWord, lower(tl_content))
    /\ Len(tl_result.conflicts) = 1
    /\ tl_result.conflicts[1].conflict_id = "TL-C-PAST"
    /\ tl_result.conflicts[1].severity = "high"
    /\ tl_result.conflicts[1].description.args = <<"release", <<2025, 5, 20>>>>

\* the text holds the word at some position, letter case aside
Mentions(word, text) ==
    \E i \in 0..(Len(text) - Len(word)) :
        \A j \in 1..Len(word) : LowerChar(text[i + j]) = word[j]

\* C18: the result holds exactly one medium conflict of ambiguous urgency
\* if the raw text contains "asap" or "urgent" in any letter case and no
\* event is flagged as a deadline, and none otherwise; so too when the
\* extraction failed and there is no event
C18_AmbiguousUrgency ==
    tl_pc = "returned" =>
        LET ambiguous == ConflictsWithId("TL-C-AMBIGUOUS-URGENCY")
            marked == Mentions(AsapWord, tl_content) \/ Mentions(UrgentWord, tl_content)
            flagged == EventsWhere(LAMBDA e : e.is_deadline)
        IN  /\ Cardinality(ambiguous) = IF marked /\ flagged = {} THEN 1 ELSE 0
            /\ \A k \in ambiguous : tl_result.conflicts[k].severity = "medium"

\* the service call failed for a message that says ASAP: no event, one
\* conflict of ambiguous urgency
C18_Witness ==
    /\ tl_pc = "returned"
    /\ tl_service[1].kind = "raise"
    /\ tl_result.events = <<>>
    /\ Mentions(AsapWord, tl_content)
    /\ Len(tl_result.conflicts) = 1
    /\ tl_result.conflicts[1].conflict_id = "TL-C-AMBIGUOUS-URGENCY"
    /\ tl_result.conflicts[1].severity = "medium"

\* C19: the result holds exactly one high conflict of multiple conflicting
\* deadlines if at least two deadline events of high certainty exist whose
\* normalized dates are not all the same, and none otherwise; deadlines of
\* medium or low certainty do not count
C19_MultipleDeadlines ==
    tl_pc = "returned" =>
        LET multiple == ConflictsWithId("TL-C-MULTIPLE-DEADLINES")
            certain == EventsWhere(LAMBDA e : e.is_deadline /\ e.date.certainty = "high")
            differing == \E a, b \in certain :
                            tl_result.events[a].date.normalized #
                                tl_result.events[b].date.normalized
        IN  /\ Cardinality(multiple) = IF differing THEN 1 ELSE 0
            /\ \A k \in multiple : tl_result.conflicts[k].severity = "high"

\* two deadlines of high certainty on different future-or-today dates gave
\* the conflict of multiple deadlines
C19_Witness ==
    /\ tl_pc = "returned"
    /\ Len(tl_result.events) = 2
    /\ \A k \in 1..2 : /\ tl_result.events[k].is_deadline
                       /\ tl_result.events[k].date.certainty = "high"
    /\ tl_result.events[1].date.normalized = <<2026, 1, 1>>
    /\ tl_result.events[2].date.normalized = <<2025, 6, 15>>
    /\ ConflictsWithId("TL-C-MULTIPLE-DEADLINES") # {}

UrgentClarification == "URGENT: Clarify timeline conflicts immediately."
AmbiguousDates == "Clarify ambiguous dates: {}"
PrioritizeRisk == "High urgency detected. Prioritize risk assessment."

\* the positions of a recommendation in the returned result
RecommendationAt(text) ==
    {k \in 1..Len(tl_result.recommendations) : tl_result.recommendations[k].text = text}

\* C20: without events and conflicts there is no recommendation; otherwise
\* the recommendations are, in this order and each at most once, the
\* urgent clarification if and only if some conflict is high (then it is
\* the first), the ambiguous dates if and only if some event has low
\* certainty, and the risk prioritisation if and only if some event has an
\* urgency score of 8 or more
C20_Recommendations ==
    tl_pc = "returned" =>
        LET recs == tl_result.recommendations
            conflicts == tl_result.conflicts
        IN  /\ (tl_result.events = <<>> /\ conflicts = <<>>) => recs = <<>>
            /\ \A k \in 1..Len(recs) :
                  recs[k].text \in {UrgentClarification, AmbiguousDates, PrioritizeRisk}
            /\ \A text \in {UrgentClarification, AmbiguousDates, PrioritizeRisk} :
                  Cardinality(RecommendationAt(text)) <= 1
            /\ RecommendationAt(UrgentClarification) # {} <=>
                  \E k \in 1..Len(conflicts) : conflicts[k].severity = "high"
            /\ RecommendationAt(UrgentClarification) \subseteq {1}
            /\ RecommendationAt(AmbiguousDates) # {} <=>
                  EventsWhere(LAMBDA e : e.date.certainty = "low") # {}
            /\ RecommendationAt(PrioritizeRisk) # {} <=>
                  EventsWhere(LAMBDA e : e.urgency_score >= 8) # {}
            /\ \A a \in RecommendationAt(AmbiguousDates), r \in RecommendationAt(PrioritizeRisk) :
                  a < r

\* a past deadline of low certainty and urgency score 8 gave the three
\* recommendations in their order
C20_Witness ==
    /\ tl_pc = "returned"
    /\ Len(tl_result.events) = 1
    /\ tl_result.events[1].urgency_score = 8
    /\ tl_result.events[1].date.certainty = "low"
    /\ Len(tl_result.recommendations) = 3
    /\ tl_result.recommendations[1].text = UrgentClarification
    /\ tl_result.recommendations[2].text = AmbiguousDates
    /\ tl_result.recommendations[3].text = PrioritizeRisk

\* the items of the engine's response, <<>> when it holds no list
EventItemsOf(outcome) ==
    IF /\ outcome.kind = "return"
       /\ outcome.raw.kind = "object"
       /\ "events" \in DOMAIN outcome.raw.data
    THEN outcome.raw.data.events
    ELSE <<>>

\* C21: the timeline extraction drops each item that does not validate
\* alone and keeps the valid events in their order; a failed service call
\* and a response that cannot be parsed give no event; analyze returns a
\* result in every case
C21_TimelinePartialSuccess ==
    /\ tl_pc \in {"off", "called", "awaiting", "returned"}
    /\ tl_pc = "returned" =>
          LET items == EventItemsOf(tl_service[1])
              valid == {i \in 1..Len(items) : ValidateEvent(items[i]).ok}
              events == tl_result.events
          IN  /\ Len(events) = Cardinality(valid)
              /\ \A k \in 1..Len(events) :
                    events[k] = ValidateEvent(items[KthOf(valid, k)]).value
              /\ DOMAIN tl_result = {"events", "conflicts", "recommendations"}

\* a response whose first item has no description and no date gave the
\* event of its second item
C21_Witness ==
    /\ tl_pc = "returned"
    /\ Len(EventItemsOf(tl_service[1])) = 2
    /\ ~ValidateEvent(EventItemsOf(tl_service[1])[1]).ok
    /\ ValidateEvent(EventItemsOf(tl_service[1])[2]).ok
    /\ Len(tl_result.events) = 1
    /\ tl_result.events[1].description = "kickoff"

\* route_task has returned for a task a capability resolves for, whose
\* content is an empty or whitespace-only string
BlankContentExtracted ==
    /\ rt_pc = "returned"
    /\ rt_agent # None
    /\ rt_content # PyNone
    /\ strip(rt_content.value) = <<>>

\* C22 as stated: with empty or whitespace-only content every capability
\* returns its empty_result value and calls no extraction service
C22_BlankContentGivesEmptyResult ==
    BlankContentExtracted =>
        /\ rt_service = <<>>
        /\ rt_result.extraction_result = empty_result(rt_agent)

\* C22 amended: with empty or whitespace-only content no capability calls
\* the extraction service; every capability but the evaluation returns its
\* empty_result value, and the evaluation returns that value with the
\* feedback of an automatic approval
C22_BlankContentGivesDefaultResult ==
    BlankContentExtracted =>
        /\ rt_service = <<>>
        /\ rt_result.success
        /\ rt_agent # "evaluation_agent" =>
              rt_result.extraction_result = empty_result(rt_agent)
        /\ rt_agent = "evaluation_agent" =>
              rt_result.extraction_result =
                  [empty_result(rt_agent) EXCEPT !.fields.feedback =
                      "No explicit response to evaluate - extraction tasks completed successfully"]

\* the evaluation was given whitespace only and approved without a call
C22_Witness ==
    /\ BlankContentExtracted
    /\ rt_content.value = <<" ", "\n">>
    /\ rt_agent = "evaluation_agent"
    /\ rt_service = <<>>
    /\ rt_result.extraction_result.fields.result = "APPROVED"
    /\ rt_result.extraction_result.fields.feedback # None

(* ------------------------ the extraction service ------------------------ *)
\* status codes of the provider's HTTP response
StatusOK == 200
StatusRateLimited == 429
StatusCodes == {200, 201, 204, 400, 401, 404, 429, 500, 503}

\* the texts a provider answers with
CompletionTexts == {<<"{", "}">>, <<"[", "]">>, <<"o", "k">>}

\* the body of a 200 response: the completion it holds, or no completion
ResponseBodies ==
    [choices : {<<>>}] \cup
    {[choices |-> <<[message |-> [content |-> t]]>>] : t \in CompletionTexts}

\* what a request to the OpenAI-compatible endpoint ends with
HttpResponses == [kind : {"response"}, status_code : StatusCodes, body : ResponseBodies]
TransportErrors ==
    [kind : {"raise"}, error : {"ConnectError", "ConnectTimeout", "ReadTimeout"}]

\* what model.generate_content ends with: a text or an exception and its message
GeminiMessages ==
    { <<"4", "2", "9", " ", "T", "o", "o", " ", "M", "a", "n", "y", " ", "R", "e", "q", "u", "e", "s", "t", "s">>,
      <<"Q", "u", "o", "t", "a", " ", "e", "x", "c", "e", "e", "d", "e", "d">>,
      <<"R", "E", "S", "O", "U", "R", "C", "E", "_", "E", "X", "H", "A", "U", "S", "T", "E", "D">>,
      <<"5", "0", "0", " ", "I", "n", "t", "e", "r", "n", "a", "l">>,
      <<"D", "e", "a", "d", "l", "i", "n", "e", " ", "E", "x", "c", "e", "e", "d", "e", "d">> }
GeminiResponses == [kind : {"response"}, text : CompletionTexts]
GeminiErrors == [kind : {"raise"}, error : {"GoogleAPIError"}, message : GeminiMessages]

UserPrompts ==
    { <<"N", "o", "t", "i", "f", "i", "c", "a", "t", "i", "o", "n", "s", ",", " ", "D", "a", "s", "h", "b", "o", "a", "r", "d", " ", "E", "x", "p", "o", "r", "t">>,
      <<"d", "a", "s", "h", "b", "o", "a", "r", "d", " ", "e", "x", "p", "o", "r", "t">>,
      <<"D", "e", "p", "l", "o", "y", " ", "s", "i", "d", "e", "b", "a", "r">>,
      <<"s", "i", "d", "e", "b", "a", "r">>,
      <<"h", "i">> }

\* mock_data.get_mock_response
get_mock_response(user_prompt) ==
    LET prompt_lower == lower(user_prompt)
    IN  IF /\ Contains(<<"n", "o", "t", "i", "f", "i", "c", "a", "t", "i", "o", "n", "s">>, prompt_lower)
           /\ Contains(<<"d", "a", "s", "h", "b", "o", "a", "r", "d", " ", "e", "x", "p", "o", "r", "t">>, prompt_lower)
        THEN "SAMPLE_L1_RESPONSE"
        ELSE IF /\ Contains(<<"s", "i", "d", "e", "b", "a", "r">>, prompt_lower)
                /\ Contains(<<"d", "e", "p", "l", "o", "y">>, prompt_lower)
        THEN "SAMPLE_SIDEBAR_RESPONSE"
        ELSE "GENERIC_FALLBACK_RESPONSE"

\* _complete_openai_compatible from the end of client.post on
OpenAIOutcome(user_prompt, http) ==
    IF http.kind = "raise" THEN [kind |-> "raise", error |-> http.error]
    ELSE IF http.status_code # StatusOK
    THEN IF http.status_code = StatusRateLimited
         THEN [kind |-> "return", mock |-> TRUE, value |-> get_mock_response(user_prompt)]
         ELSE [kind |-> "raise", error |-> "LLMAPIError", status_code |-> http.status_code]
    ELSE IF http.body.choices = <<>> THEN [kind |-> "raise", error |-> "IndexError"]
    ELSE [kind |-> "return", mock |-> FALSE,
          value |-> http.body.choices[1].message.content]

\* _complete_gemini from the end of generate_content on
GeminiOutcome(user_prompt, sdk) ==
    IF sdk.kind = "response" THEN [kind |-> "return", mock |-> FALSE, value |-> sdk.text]
    ELSE IF \/ Contains(<<"4", "2", "9">>, sdk.message)
            \/ Contains(<<"q", "u", "o", "t", "a">>, lower(sdk.message))
            \/ Contains(<<"r", "e", "s", "o", "u", "r", "c", "e", "_", "e", "x", "h", "a", "u", "s", "t", "e", "d">>, lower(sdk.message))
    THEN [kind |-> "return", mock |-> TRUE, value |-> get_mock_response(user_prompt)]
    ELSE [kind |-> "raise", error |-> sdk.error]

ClientInit ==
    /\ SchedulerIdle
    /\ RouteTaskIdle
    /\ OrchestrateIdle
    /\ TimelineIdle
    /\ ExtractJsonIdle
    /\ StorageIdle
    /\ PairIdle
    /\ ContextIdle
    /\ FilterIdle
    /\ cl_pc = "called"
    /\ cl_provider \in {"openai", "gemini"}
    /\ cl_prompt \in UserPrompts
    /\ cl_transport = <<>>
    /\ cl_outcome = [kind |-> None]

\* the function sends its request and awaits the provider
ClSend ==
    /\ cl_pc = "called"
    /\ cl_pc' = "awaiting"
    /\ UNCHANGED <<cl_provider, cl_prompt, cl_transport, cl_outcome>>
    /\ UNCHANGED outside_client

\* client.post returns a response
ClPostResponds ==
    /\ cl_pc = "awaiting" /\ cl_provider = "openai"
    /\ \E http \in HttpResponses :
          /\ cl_transport' = Append(cl_transport, http)
          /\ cl_outcome' = OpenAIOutcome(cl_prompt, http)
    /\ cl_pc' = "returned"
    /\ UNCHANGED <<cl_provider, cl_prompt>>
    /\ UNCHANGED outside_client

\* client.post raises a connection or timeout error
ClPostRaises ==
    /\ cl_pc = "awaiting" /\ cl_provider = "openai"
    /\ \E http \in TransportErrors :
          /\ cl_transport' = Append(cl_transport, http)
          /\ cl_outcome' = OpenAIOutcome(cl_prompt, http)
    /\ cl_pc' = "returned"
    /\ UNCHANGED <<cl_provider, cl_prompt>>
    /\ UNCHANGED outside_client

\* model.generate_content returns
ClGeminiResponds ==
    /\ cl_pc = "awaiting" /\ cl_provider = "gemini"
    /\ \E sdk \in GeminiResponses :
          /\ cl_transport' = Append(cl_transport, sdk)
          /\ cl_outcome' = GeminiOutcome(cl_prompt, sdk)
    /\ cl_pc' = "returned"
    /\ UNCHANGED <<cl_provider, cl_prompt>>
    /\ UNCHANGED outside_client

\* model.generate_content raises
ClGeminiRaises ==
    /\ cl_pc = "awaiting" /\ cl_provider = "gemini"
    /\ \E sdk \in GeminiErrors :
          /\ cl_transport' = Append(cl_transport, sdk)
          /\ cl_outcome' = GeminiOutcome(cl_prompt, sdk)
    /\ cl_pc' = "returned"
    /\ UNCHANGED <<cl_provider, cl_prompt>>
    /\ UNCHANGED outside_client

ClientNext ==
    \/ ClSend
    \/ ClPostResponds
    \/ ClPostRaises
    \/ ClGeminiResponds
    \/ ClGeminiRaises

ClientSpec == ClientInit /\ [][ClientNext]_vars

\* the call has ended on an HTTP response whose status is not a 2xx one
ErrorResponseReceived ==
    /\ cl_pc = "returned" /\ cl_provider = "openai"
    /\ cl_transport[Len(cl_transport)].kind = "response"
    /\ cl_transport[Len(cl_transport)].status_code \notin 200..299

\* C23: a call that received an error response (a status outside 2xx, 429
\* included) made one request only and ends with an error, never with a
\* payload
C23_ErrorResponseFailsCall ==
    ErrorResponseReceived =>
        /\ Len(cl_transport) = 1
        /\ cl_outcome.kind = "raise"

(* ------------------------- LLMClient.extract_json ----------------------- *)
\* the longest raw text is made of MaxPieces pieces
MaxPieces == 5
\* raw[:200] is the preview of the error message
PreviewLen == 200

\* the grave accent character, which a TLA+ string cannot hold
Backtick == "grave"
Fence == <<Backtick, Backtick, Backtick>>
JsonWord == <<"j", "s", "o", "n">>
Filler == [i \in 1..PreviewLen |-> "x"]

\* the pieces raw texts are made of
Pieces == { Fence, Fence \o JsonWord, <<"{">>, <<"}">>, <<"[">>, <<"]">>,
            <<"1">>, <<" ">>, <<"x">> }

RECURSIVE Flatten(_)
Flatten(pieces) ==
    IF pieces = <<>> THEN <<>> ELSE Head(pieces) \o Flatten(Tail(pieces))

\* the short texts, and texts longer than the preview
RawTexts ==
    LET short(n) == {Flatten(p) : p \in UNION {[1..k -> Pieces] : k \in 0..n}}
    IN  short(MaxPieces) \cup {Filler \o t : t \in short(1)}

\* the whitespace json.loads skips
JsonWhitespace == {" ", "\t", "\n", "\r"}

JsonStrip(s) ==
    LET kept == {i \in 1..Len(s) : s[i] \notin JsonWhitespace}
    IN  IF kept = {} THEN <<>>
        ELSE SubSeq(s, CHOOSE i \in kept : \A j \in kept : i <= j,
                       CHOOSE i \in kept : \A j \in kept : j <= i)

RECURSIVE Repunit(_)
Repunit(k) == IF k = 0 THEN 0 ELSE 10 * Repunit(k - 1) + 1

JsonFails == [ok |-> FALSE]
JsonNumber(n) == [ok |-> TRUE, value |-> [type |-> "int", n |-> n, items |-> <<>>]]
JsonObject == [ok |-> TRUE, value |-> [type |-> "dict", n |-> 0, items |-> <<>>]]
JsonArray(items) == [ok |-> TRUE, value |-> [type |-> "list", n |-> 0, items |-> items]]

\* json.loads on the texts made of Pieces: a number, an empty object, an
\* array of no or one value (no comma, quote or colon is among the pieces);
\* ok is FALSE where json.loads raises JSONDecodeError
RECURSIVE json_loads(_)
json_loads(text) ==
    LET s == JsonStrip(text)
        inner == SubSeq(s, 2, Len(s) - 1)
    IN  IF s = <<>> THEN JsonFails
        ELSE IF \A i \in 1..Len(s) : s[i] = "1" THEN JsonNumber(Repunit(Len(s)))
        ELSE IF Len(s) < 2 THEN JsonFails
        ELSE IF s[1] = "{" /\ s[Len(s)] = "}"
        THEN IF JsonStrip(inner) = <<>> THEN JsonObject ELSE JsonFails
        ELSE IF s[1] = "[" /\ s[Len(s)] = "]"
        THEN IF JsonStrip(inner) = <<>> THEN JsonArray(<<>>)
             ELSE IF json_loads(inner).ok THEN JsonArray(<<json_loads(inner).value>>)
             ELSE JsonFails
        ELSE JsonFails

\* str.find and str.rfind of one character, 0 where Python gives -1
find(s, c) ==
    IF \E i \in 1..Len(s) : s[i] = c
    THEN CHOOSE i \in 1..Len(s) : s[i] = c /\ \A j \in 1..(i - 1) : s[j] # c
    ELSE 0
rfind(s, c) ==
    IF \E i \in 1..Len(s) : s[i] = c
    THEN CHOOSE i \in 1..Len(s) : s[i] = c /\ \A j \in (i + 1)..Len(s) : s[j] # c
    ELSE 0

StartsAt(s, i, word) ==
    i + Len(word) - 1 <= Len(s) /\ SubSeq(s, i, i + Len(word) - 1) = word

\* where group 1 starts when the pattern fence, (?:json)?, \s* matches at i
GroupStart(s, i) ==
    LET after == IF StartsAt(s, i + 3, JsonWord) THEN i + 3 + Len(JsonWord) ELSE i + 3
    IN  CHOOSE p \in after..(Len(s) + 1) :
            /\ \A q \in after..(p - 1) : s[q] \in Whitespace
            /\ p = Len(s) + 1 \/ s[p] \notin Whitespace

\* re.search of a fence, (?:json)?\s*([\s\S]*?) and a fence in raw: group 1 of the leftmost
\* match, the group ending at the first closing fence
FencedBlock(s) ==
    LET closes(i) == {j \in GroupStart(s, i)..Len(s) : StartsAt(s, j, Fence)}
        opens == {i \in 1..Len(s) : StartsAt(s, i, Fence) /\ closes(i) # {}}
    IN  IF opens = {} THEN [match |-> FALSE]
        ELSE LET i == CHOOSE i \in opens : \A k \in opens : i <= k
                 j == CHOOSE j \in closes(i) : \A k \in closes(i) : j <= k
             IN  [match |-> TRUE, group |-> SubSeq(s, GroupStart(s, i), j - 1)]

\* the four strategies, each on its own: what it parses, if it applies
DirectParse(raw) ==
    LET stripped == strip(raw)
    IN  IF stripped # <<>> /\ stripped[1] \in {"{", "["}
        THEN json_loads(stripped) ELSE JsonFails
CodeBlockParse(raw) ==
    IF FencedBlock(raw).match THEN json_loads(strip(FencedBlock(raw).group))
    ELSE JsonFails
Between(raw, open, close) ==
    LET start == find(raw, open)
        end == rfind(raw, close)
    IN  IF start # 0 /\ end # 0 /\ end > start
        THEN json_loads(SubSeq(raw, start, end)) ELSE JsonFails
BracesParse(raw) == Between(raw, "{", "}")
BracketsParse(raw) == Between(raw, "[", "]")

CouldNotExtract(raw) ==
    [kind |-> "raise", error |-> "ValueError",
     message |-> <<"C", "o", "u", "l", "d", " ", "n", "o", "t", " ", "e", "x", "t", "r", "a", "c", "t", " ", "J", "S", "O", "N", " ", "f", "r", "o", "m", " ", "r", "e", "s", "p", "o", "n", "s", "e", ":", " ">> \o
                 SubSeq(raw, 1, IF Len(raw) < PreviewLen THEN Len(raw) ELSE PreviewLen) \o
                 <<".", ".", ".">>]

Parsed(parse) == [kind |-> "return", value |-> parse.value]

\* variant: the brackets are searched before the braces
extract_json_BracketsFirst(raw) ==
    IF DirectParse(raw).ok THEN Parsed(DirectParse(raw))
    ELSE IF CodeBlockParse(raw).ok THEN Parsed(CodeBlockParse(raw))
    ELSE IF BracketsParse(raw).ok THEN Parsed(BracketsParse(raw))
    ELSE IF BracesParse(raw).ok THEN Parsed(BracesParse(raw))
    ELSE CouldNotExtract(raw)

\* LLMClient.extract_json
extract_json(raw) ==
    IF DirectParse(raw).ok THEN Parsed(DirectParse(raw))
    ELSE IF CodeBlockParse(raw).ok THEN Parsed(CodeBlockParse(raw))
    ELSE IF BracesParse(raw).ok THEN Parsed(BracesParse(raw))
    ELSE IF BracketsParse(raw).ok THEN Parsed(BracketsParse(raw))
    ELSE CouldNotExtract(raw)

ExtractJsonInit ==
    /\ SchedulerIdle
    /\ RouteTaskIdle
    /\ OrchestrateIdle
    /\ TimelineIdle
    /\ ClientIdle
    /\ StorageIdle
    /\ PairIdle
    /\ ContextIdle
    /\ FilterIdle
    /\ ej_pc = "called"
    /\ ej_raw \in RawTexts
    /\ ej_outcome = [kind |-> None]

\* the call runs to its end
EjExtract ==
    /\ ej_pc = "called"
    /\ ej_pc' = "returned"
    /\ ej_outcome' = extract_json(ej_raw)
    /\ UNCHANGED ej_raw
    /\ UNCHANGED outside_extract_json

ExtractJsonNext ==
    \/ EjExtract

ExtractJsonSpec == ExtractJsonInit /\ [][ExtractJsonNext]_vars

\* what the four strategies give on the raw text, in the order of the code
StrategyResults ==
    <<DirectParse(ej_raw), CodeBlockParse(ej_raw), BracesParse(ej_raw),
      BracketsParse(ej_raw)>>

\* C24: extract_json returns the value of the first of its four strategies,
\* in the order direct parse, fenced code block, braces, brackets, that
\* parses; when none parses it raises an error whose message holds the first
\* 200 characters of the raw text and no more of it
C24_FirstParsingStrategyWins ==
    ej_pc = "returned" =>
        LET parsing == {k \in 1..4 : StrategyResults[k].ok}
        IN  /\ parsing # {} =>
                  /\ ej_outcome.kind = "return"
                  /\ \E k \in parsing :
                        /\ \A j \in parsing : k <= j
                        /\ ej_outcome.value = StrategyResults[k].value
            /\ parsing = {} =>
                  /\ ej_outcome.kind = "raise"
                  /\ \A n \in 1..Len(ej_raw) :
                        Contains(SubSeq(ej_raw, 1, n), ej_outcome.message)
                            <=> n <= PreviewLen

\* a fenced block is returned although the braces after it parse as well
C24_Witness ==
    /\ ej_pc = "returned"
    /\ ~DirectParse(ej_raw).ok
    /\ CodeBlockParse(ej_raw).ok /\ BracesParse(ej_raw).ok
    /\ CodeBlockParse(ej_raw).value # BracesParse(ej_raw).value
    /\ ej_outcome = [kind |-> "return", value |-> [type |-> "int", n |-> 1, items |-> <<>>]]

(* -------------------------------- Storage ------------------------------- *)
\* the storage is followed over MaxSaves save calls
MaxSaves == 3
\* a saved plan has at most MaxPlanRows tasks
MaxPlanRows == 2

MessageIds == {"MSG-001", "MSG-002"}
StoredTaskIds == {"TASK-001", "TASK-002"}
Descriptions == {"first wording", "second wording"}

\* the columns save_task_plan takes from a task
PlanRows ==
    [task_id : StoredTaskIds, domain : {"risk_extraction"},
     description : Descriptions, priority : {"High"}]

\* the plans given to save_task_plan
SavedPlans ==
    [source_message_id : MessageIds,
     tasks : UNION {[1..k -> PlanRows] : k \in 0..MaxPlanRows}]

ExtractionPayloads == {"no items", "one item"}

\* json.dumps(data): the text stored in column data
json_dumps(data) == [text |-> data]

\* the rowid sqlite gives a new row of an INTEGER PRIMARY KEY table
NewRowId(ids) == IF ids = {} THEN 1 ELSE (CHOOSE i \in ids : \A j \in ids : j <= i) + 1

\* INSERT OR REPLACE INTO tasks: the row that holds the task_id (column
\* task_id is UNIQUE) is deleted, whatever its message, and the new one
\* inserted
InsertOrReplace(rows, message_id, task) ==
    {r \in rows : r.task_id # task.task_id} \cup
    {[id |-> NewRowId({r.id : r \in rows}), message_id |-> message_id,
      task_id |-> task.task_id, domain |-> task.domain,
      description |-> task.description, priority |-> task.priority]}

\* the for loop of save_task_plan
RECURSIVE InsertTasks(_, _, _)
InsertTasks(rows, message_id, tasks) ==
    IF tasks = <<>> THEN rows
    ELSE InsertTasks(InsertOrReplace(rows, message_id, Head(tasks)), message_id, Tail(tasks))

StorageInit ==
    /\ SchedulerIdle
    /\ RouteTaskIdle
    /\ OrchestrateIdle
    /\ TimelineIdle
    /\ ClientIdle
    /\ ExtractJsonIdle
    /\ PairIdle
    /\ ContextIdle
    /\ FilterIdle
    /\ db_pc = "open"
    /\ db_tasks = {}
    /\ db_extractions = <<>>
    /\ db_calls = <<>>

\* Storage.save_task_plan, committed
SaveTaskPlan ==
    /\ db_pc = "open" /\ Len(db_calls) < MaxSaves
    /\ \E task_plan_saved \in SavedPlans :
          /\ db_tasks' = InsertTasks(db_tasks, task_plan_saved.source_message_id,
                                     task_plan_saved.tasks)
          /\ db_calls' = Append(db_calls, [op |-> "save_task_plan",
                                            plan |-> task_plan_saved])
    /\ UNCHANGED <<db_pc, db_extractions>>
    /\ UNCHANGED outside_storage

\* Storage.save_extraction, committed
SaveExtraction ==
    /\ db_pc = "open" /\ Len(db_calls) < MaxSaves
    /\ \E task_id \in StoredTaskIds, data \in ExtractionPayloads :
          /\ db_extractions' = Append(db_extractions,
                [id |-> NewRowId({db_extractions[k].id : k \in 1..Len(db_extractions)}),
                 task_id |-> task_id, extraction_type |-> "risks",
                 data |-> json_dumps(data)])
          /\ db_calls' = Append(db_calls, [op |-> "save_extraction", task_id |-> task_id,
                                            extraction_type |-> "risks", data |-> data])
    /\ UNCHANGED <<db_pc, db_tasks>>
    /\ UNCHANGED outside_storage

StorageNext ==
    \/ SaveTaskPlan
    \/ SaveExtraction

StorageSpec == StorageInit /\ [][StorageNext]_vars

\* the (message id, task id) pairs saved so far
SavedKeys ==
    {<<db_calls[k].plan.source_message_id, db_calls[k].plan.tasks[i].task_id>> :
        <<k, i>> \in {<<k, i>> \in (1..Len(db_calls)) \X (1..MaxPlanRows) :
                        /\ db_calls[k].op = "save_task_plan"
                        /\ i <= Len(db_calls[k].plan.tasks)}}

\* the save_extraction calls made so far, in order
SavedExtractions ==
    LET saves == {k \in 1..Len(db_calls) : db_calls[k].op = "save_extraction"}
    IN  [n \in 1..Cardinality(saves) |-> db_calls[KthOf(saves, n)]]

\* C25: table tasks holds exactly one row for every (message id, task id)
\* saved, however often it was saved and whichever other message saved the
\* same task id; table extractions holds one row per save_extraction call,
\* in call order
C25_PlanUpsertKeyedByMessageAndTask ==
    /\ \A key \in SavedKeys :
          Cardinality({r \in db_tasks : r.message_id = key[1] /\ r.task_id = key[2]}) = 1
    /\ Len(db_extractions) = Len(SavedExtractions)
    /\ \A n \in 1..Len(db_extractions) :
          /\ db_extractions[n].task_id = SavedExtractions[n].task_id
          /\ db_extractions[n].data = json_dumps(SavedExtractions[n].data)

(* ------------------ two executions on one coordinator ------------------- *)
\* each of the two plans has at most MaxPairTasks tasks
MaxPairTasks == 2

Executions == {1, 2}
\* argument content of each call
PairContents == <<"first message", "second message">>

\* plans whose tasks all go to the Q&A capability; both calls draw from the
\* same plans, so their task ids coincide
PairPlans ==
    UNION { {p \in PlansOfSize(n) : \A i \in 1..n : p[i].l3_agent = "qna"}
            : n \in 0..MaxPairTasks }

\* what the awaited agent.extract returns for the content it was given
AnswerTo(message, task_id) ==
    [model |-> "QnAResponse",
     fields |-> [response |-> <<"answer to", message>>, source_task_id |-> task_id]]

\* variant: one map, that of the first call, is read by every call
CompletedOf_FirstCall(maps, e) == maps[1]

\* the completed_results a call reads: its own local
CompletedOf(maps, e) == maps[e]

PairInit ==
    /\ SchedulerIdle
    /\ RouteTaskIdle
    /\ OrchestrateIdle
    /\ TimelineIdle
    /\ ClientIdle
    /\ ExtractJsonIdle
    /\ StorageIdle
    /\ ContextIdle
    /\ FilterIdle
    /\ px_pc = [e \in Executions |-> "idle"]
    /\ px_plan \in [Executions -> PairPlans]
    /\ px_ordered = [e \in Executions |-> <<>>]
    /\ px_idx = [e \in Executions |-> 1]
    /\ px_results = [e \in Executions |-> <<>>]
    /\ px_completed = [e \in Executions |-> EmptyDict]
    /\ px_call = [e \in Executions |-> NoCall]
    /\ px_contexts = [e \in Executions |-> <<>>]
    /\ co_initialized = FALSE

PairTask(e) == px_ordered[e][px_idx[e]]

\* route_all_tasks is called: the order is computed, the locals are created
PxCall ==
    \E e \in Executions :
        /\ px_pc[e] = "idle"
        /\ px_pc' = [px_pc EXCEPT ![e] = "loop"]
        /\ px_ordered' = [px_ordered EXCEPT ![e] = OrderedTasks(px_plan[e])]
        /\ px_idx' = [px_idx EXCEPT ![e] = 1]
        /\ px_results' = [px_results EXCEPT ![e] = <<>>]
        /\ px_completed' = [px_completed EXCEPT ![e] = EmptyDict]
        /\ UNCHANGED <<px_plan, px_call, px_contexts, co_initialized>>
        /\ UNCHANGED outside_pair

\* one iteration up to its suspension point: the context is built from the
\* call's completed_results, get_agent initializes the coordinator if it is
\* the first to run, and agent.extract is awaited
PxAwaitExtract ==
    \E e \in Executions :
        /\ px_pc[e] = "loop"
        /\ px_idx[e] <= Len(px_ordered[e])
        /\ get_agent(PairTask(e)) # None
        /\ LET context == BuildContext(PairTask(e), CompletedOf(px_completed, e)).value
           IN  /\ px_call' = [px_call EXCEPT ![e] =
                     [task_id |-> PairTask(e).task_id,
                      agent |-> get_agent(PairTask(e)),
                      context |-> context,
                      extraction_content |-> ExtractionContent(PairContents[e], context)]]
               /\ px_contexts' = [px_contexts EXCEPT ![e] = Append(@, context)]
        /\ co_initialized' = TRUE
        /\ px_pc' = [px_pc EXCEPT ![e] = "extract"]
        /\ UNCHANGED <<px_plan, px_ordered, px_idx, px_results, px_completed>>
        /\ UNCHANGED outside_pair

\* the end of one loop iteration of call e
PxFinishTask(e, result) ==
    /\ px_results' = [px_results EXCEPT ![e] = RecordResult(@, result)]
    /\ px_completed' = [px_completed EXCEPT ![e] = MarkCompleted(@, PairTask(e), result)]
    /\ px_idx' = [px_idx EXCEPT ![e] = @ + 1]
    /\ px_pc' = [px_pc EXCEPT ![e] = "loop"]
    /\ px_call' = [px_call EXCEPT ![e] = NoCall]
    /\ UNCHANGED <<px_plan, px_ordered, px_contexts, co_initialized>>
    /\ UNCHANGED outside_pair

\* the awaited call of one execution returns its payload
PxExtractReturns ==
    \E e \in Executions :
        /\ px_pc[e] = "extract"
        /\ PxFinishTask(e, SuccessResult(PairTask(e), px_call[e].agent,
                               AnswerTo(px_call[e].extraction_content.content,
                                        px_call[e].task_id)))

\* the awaited call of one execution raises
PxExtractRaises ==
    \E e \in Executions, msg \in ExceptionMessages :
        /\ px_pc[e] = "extract"
        /\ PxFinishTask(e, ExceptionResult(PairTask(e), msg))

\* the loop of one execution is exhausted: it returns its results and its
\* completed_results goes out of scope
PxReturn ==
    \E e \in Executions :
        /\ px_pc[e] = "loop"
        /\ px_idx[e] > Len(px_ordered[e])
        /\ px_pc' = [px_pc EXCEPT ![e] = "returned"]
        /\ px_completed' = [px_completed EXCEPT ![e] = EmptyDict]
        /\ UNCHANGED <<px_plan, px_ordered, px_idx, px_results, px_call,
                       px_contexts, co_initialized>>
        /\ UNCHANGED outside_pair

PairNext ==
    \/ PxCall
    \/ PxAwaitExtract
    \/ PxExtractReturns
    \/ PxExtractRaises
    \/ PxReturn

PairSpec == PairInit /\ [][PairNext]_vars

\* the result was produced for execution e: its payload, if any, answers
\* the content of e
ProducedFor(e, result) ==
    result.success => result.extraction_result.fields.response[2] = PairContents[e]

\* C26: whatever the interleaving of two executions on one coordinator,
\* the results, the completed-results map and every dependency context of
\* an execution hold only results produced for that execution; the map is
\* empty when an execution starts and after it returned
C26_NoStateCrossesExecutions ==
    \A e \in Executions :
        /\ \A k \in 1..Len(px_results[e]) : ProducedFor(e, px_results[e][k])
        /\ \A id \in DOMAIN px_completed[e] : ProducedFor(e, px_completed[e][id])
        /\ \A k \in 1..Len(px_contexts[e]) : \A d \in 1..Len(px_contexts[e][k]) :
              px_contexts[e][k][d].dep_data.response[2] = PairContents[e]
        /\ px_pc[e] \in {"idle", "returned"} => px_completed[e] = EmptyDict
        /\ px_pc[e] = "loop" /\ px_idx[e] = 1 => px_completed[e] = EmptyDict

\* the second execution forwards its own TASK-001 to its TASK-002 while the
\* first execution, which completed a TASK-001 too, is suspended
C26_Witness ==
    /\ px_pc[1] = "extract" /\ px_pc[2] = "extract"
    /\ "TASK-001" \in DOMAIN px_completed[1]
    /\ px_completed[1]["TASK-001"].success
    /\ px_call[2].task_id = "TASK-002"
    /\ Len(px_call[2].context) = 1
    /\ px_call[2].context[1].dep_id = "TASK-001"
    /\ px_call[2].context[1].dep_data.response = <<"answer to", "second message">>

(* ------------------- route_task: the extraction content ----------------- *)
\* a context holds at most MaxDeps dependencies
MaxDeps == 2

\* the dicts a context entry may hold: the dump of a Q&A response, of an
\* extraction without and with items, of an evaluation, and a dict with
\* both a response and items
DepData ==
    { [response |-> "answer", source_task_id |-> "TASK-001"],
      [items |-> <<>>, source_task_id |-> None],
      [items |-> <<"item-1", "item-2">>, source_task_id |-> "TASK-001"],
      [result |-> "APPROVED", source_task_id |-> "TASK-001"],
      [response |-> "answer", items |-> <<"item-1">>] }

\* context dicts of up to MaxDeps entries, None included as the empty list
ContextDicts ==
    { c \in UNION {[1..k -> [dep_id : {TaskIdAt[i] : i \in 1..MaxDeps}, dep_data : DepData]]
                   : k \in 0..MaxDeps} :
        \A i, j \in 1..Len(c) : i # j => c[i].dep_id # c[j].dep_id }

ContextInit ==
    /\ SchedulerIdle
    /\ RouteTaskIdle
    /\ OrchestrateIdle
    /\ TimelineIdle
    /\ ClientIdle
    /\ ExtractJsonIdle
    /\ StorageIdle
    /\ PairIdle
    /\ FilterIdle
    /\ cx_pc = "try"
    /\ cx_content \in {"message body", "second message"}
    /\ cx_context \in ContextDicts
    /\ cx_extraction_content = [content |-> None]

\* the statements from the try to the await of agent.extract
CxAssemble ==
    /\ cx_pc = "try"
    /\ cx_pc' = "extract"
    /\ cx_extraction_content' = ExtractionContent(cx_content, cx_context)
    /\ UNCHANGED <<cx_content, cx_context>>
    /\ UNCHANGED outside_context

ContextNext ==
    \/ CxAssemble

ContextSpec == ContextInit /\ [][ContextNext]_vars

HasField(dep_data, field) == field \in DOMAIN dep_data

\* the fragment has the form the first matching rule gives the entry
FragmentOfEntry(part, entry) ==
    IF HasField(entry.dep_data, "response")
    THEN part = [label |-> "Response to evaluate:", text |-> entry.dep_data.response]
    ELSE IF HasField(entry.dep_data, "items")
    THEN part = [label |-> "Extracted from", dep_id |-> entry.dep_id,
                 count |-> Len(entry.dep_data.items)]
    ELSE part = [label |-> "generic", dep_id |-> entry.dep_id, data |-> entry.dep_data]

\* the fragments of the extraction content, none without the delimiter
PartsOf(extraction_content) ==
    IF "parts" \in DOMAIN extraction_content THEN extraction_content.parts ELSE <<>>

\* the fragments are those of the entries of S, in order, after the
\* unchanged content and the delimiter
FragmentsAre(S) ==
    LET parts == PartsOf(cx_extraction_content)
    IN  /\ cx_extraction_content.content = cx_content
        /\ Len(parts) = Cardinality(S)
        /\ \A k \in 1..Len(parts) : FragmentOfEntry(parts[k], cx_context[KthOf(S, k)])
        /\ IF S = {} THEN cx_extraction_content = [content |-> cx_content]
           ELSE cx_extraction_content.delimiter = "--- Previous Results ---"

\* C27 as stated: every forwarded dependency contributes exactly one
\* fragment, by the first matching rule (response, items, generic), after
\* the content and the delimiter; the content is passed alone when no
\* dependency is forwarded
C27_EveryDependencyOneFragment ==
    cx_pc = "extract" => FragmentsAre(1..Len(cx_context))

\* an entry whose items list is empty and that has no response
EmptyItems(entry) ==
    /\ ~HasField(entry.dep_data, "response")
    /\ HasField(entry.dep_data, "items")
    /\ entry.dep_data.items = <<>>

\* C27 amended: every forwarded dependency contributes one fragment by the
\* first matching rule, except that a payload without response whose items
\* list is empty contributes none; the content is passed alone when no
\* dependency contributes
C27_DependencyFragments ==
    cx_pc = "extract" =>
        FragmentsAre({k \in 1..Len(cx_context) : ~EmptyItems(cx_context[k])})

\* a dict with a response and items contributed its response, after a
\* dependency without items that contributed nothing
C27_Witness ==
    /\ cx_pc = "extract"
    /\ Len(cx_context) = 2
    /\ EmptyItems(cx_context[1])
    /\ HasField(cx_context[2].dep_data, "response")
    /\ HasField(cx_context[2].dep_data, "items")
    /\ Len(PartsOf(cx_extraction_content)) = 1
    /\ cx_extraction_content.parts[1].label = "Response to evaluate:"

\* the evaluation of a response was parsed from a complete answer of the
\* service whose result is REJECTED
RejectedEvaluationParsed ==
    /\ rt_pc = "returned" /\ rt_agent = "evaluation_agent"
    /\ Len(rt_service) = 1
    /\ rt_service[1].kind = "return" /\ rt_service[1].raw.kind = "object"
    /\ DOMAIN rt_service[1].raw.data =
          {"relevance", "accuracy", "tone", "gaps_acknowledged", "result"}
    /\ rt_service[1].raw.data.result = "REJECTED"

\* C28: a parsed evaluation REJECTED with at most two FAIL criteria is
\* returned as NEEDS_REVISION; one with three or four FAIL criteria is
\* returned as it was parsed, REJECTED
C28_LeniencyDowngradesToNeedsRevision ==
    RejectedEvaluationParsed =>
        LET data == rt_service[1].raw.data
            returned == rt_result.extraction_result.fields
        IN  /\ \A k \in {"relevance", "accuracy", "tone", "gaps_acknowledged"} :
                  returned[k] = data[k]
            /\ returned.result =
                  IF Fails(data) <= 2 THEN "NEEDS_REVISION" ELSE "REJECTED"

\* C29: the result route_task returns is either a success (success true,
\* status COMPLETED, a payload, no error) or a failure (success false,
\* status FAILED, no payload, an error), and its task and domain are those
\* of the routed task
C29_RoutingResultConsistent ==
    rt_pc = "returned" =>
        /\ rt_result.task = rt_task
        /\ rt_result.domain = rt_task.domain
        /\ \/ /\ rt_result.success = TRUE
              /\ rt_result.status = "COMPLETED"
              /\ rt_result.extraction_result # NoPayload
              /\ rt_result.error = NoError
           \/ /\ rt_result.success = FALSE
              /\ rt_result.status = "FAILED"
              /\ rt_result.extraction_result = NoPayload
              /\ rt_result.error # NoError

\* a capability was resolved and its extract raised: the failed result
\* carries the exception message
C29_Witness ==
    /\ rt_pc = "returned"
    /\ rt_agent # None
    /\ rt_result.success = FALSE
    /\ rt_result.status = "FAILED"
    /\ rt_result.error = <<"argument of type 'NoneType' is not iterable">>

(* --------------------------- rbac.filter_response ----------------------- *)
PERMISSIONS ==
    [project_manager |-> {"*"},
     engineer |-> {"view_orchestration_map", "view_internal_l1_tasks",
                   "view_internal_l2_routing", "view_internal_l3_outputs",
                   "view_risks", "view_decisions", "view_timeline_analysis",
                   "view_final_response", "view_sensitive_logs"},
     designer |-> {"view_orchestration_map", "view_internal_l1_tasks", "view_risks",
                   "view_decisions", "view_timeline_analysis", "view_final_response"},
     vp_engineering |-> {"view_orchestration_map", "view_risks", "view_decisions",
                         "view_timeline_analysis", "view_final_response"},
     customer |-> {"view_final_response"},
     viewer |-> {"view_final_response"}]

\* the roles of the matrix and a role it does not know
Roles == DOMAIN PERMISSIONS \cup {"intern"}

has_permission(role, permission) ==
    LET perms == IF role \in DOMAIN PERMISSIONS THEN PERMISSIONS[role] ELSE {}
    IN  "*" \in perms \/ permission \in perms

Redacted == "[REDACTED: Insufficient Permissions]"

\* a response dict: keys are the keys it holds, the other fields their
\* values (None where the key is absent); extra is the reference of a dict
ResponseDict(keys, message_id, orchestration_map, extra) ==
    [keys |-> keys, message_id |-> message_id,
     orchestration_map |-> orchestration_map, extra |-> extra]

\* the dict under key extra
ExtraDict(keys) ==
    [keys |-> keys,
     risks |-> IF "risks" \in keys THEN <<"risk-1">> ELSE <<>>,
     decisions |-> IF "decisions" \in keys THEN <<"decision-1">> ELSE <<>>,
     action_items |-> IF "action_items" \in keys THEN <<"action-1">> ELSE <<>>,
     timeline |-> IF "timeline" \in keys THEN <<"event-1">> ELSE <<>>]

ExtraKeySets ==
    { {}, {"risks"}, {"risks", "decisions", "action_items"}, {"action_items", "timeline"} }

\* the objects a call is given: data alone, or data and its extra dict
FilterInputs ==
    { [data |-> ResponseDict({"message_id", "orchestration_map"}, m, o, None)] :
        m \in {"MSG-001", "MSG-002"}, o \in {"map A", "map B"} }
    \cup { [data |-> ResponseDict({"orchestration_map"}, None, o, None)] : o \in {"map A"} }
    \cup { [data |-> ResponseDict({"message_id"}, m, None, None)] : m \in {"MSG-001"} }
    \cup { [data |-> ResponseDict({"message_id", "orchestration_map", "extra"}, m, o, "extra"),
            extra |-> ExtraDict(ek)] :
        m \in {"MSG-001", "MSG-002"}, o \in {"map A", "map B"}, ek \in ExtraKeySets }

\* variant: filtered is the dict data itself
dict_copy_Alias(heap, ref, new) == [heap |-> heap, ref |-> ref]

\* data.copy(): a new dict with the keys and values of the old one
dict_copy(heap, ref, new) ==
    [heap |-> [r \in DOMAIN heap \cup {new} |-> IF r = new THEN heap[ref] ELSE heap[r]],
     ref |-> new]

\* heap with the object obj stored under ref
Store(heap, ref, obj) ==
    [r \in DOMAIN heap \cup {ref} |-> IF r = ref THEN obj ELSE heap[r]]

\* generate_customer_summary
generate_customer_summary(data) ==
    [keys |-> {"message_id", "status", "customer_view", "summary", "final_response"},
     message_id |-> IF "message_id" \in data.keys THEN data.message_id ELSE "Unknown",
     status |-> "Processed",
     customer_view |-> TRUE,
     summary |-> "Your request has been processed by the Nion Orchestration Engine.",
     final_response |-> "Please contact your Project Manager for the full detailed report."]

\* the dict new_extra built from extra for the role
NewExtra(extra, role) ==
    LET keys == (IF has_permission(role, "view_risks") THEN {"risks"} ELSE {})
                \cup (IF has_permission(role, "view_decisions") THEN {"decisions"} ELSE {})
                \cup (IF \/ has_permission(role, "view_internal_l3_outputs")
                         \/ has_permission(role, "view_risks")
                      THEN {"action_items"} ELSE {})
    IN  [keys |-> keys,
         risks |-> IF "risks" \in keys THEN extra.risks ELSE <<>>,
         decisions |-> IF "decisions" \in keys THEN extra.decisions ELSE <<>>,
         action_items |-> IF "action_items" \in keys THEN extra.action_items ELSE <<>>,
         timeline |-> <<>>]

\* filter_response on the objects of heap: the objects after the call and
\* the reference returned
filter_response(heap, role) ==
    IF role = "project_manager" THEN [heap |-> heap, ref |-> "data"]
    ELSE
    LET copied == dict_copy(heap, "data", "filtered")
        filtered == copied.ref
    IN  IF role = "customer"
        THEN [heap |-> Store(copied.heap, "summary", generate_customer_summary(copied.heap.data)),
              ref |-> "summary"]
        ELSE
        LET h1 == IF ~has_permission(role, "view_orchestration_map")
                  THEN Store(copied.heap, filtered,
                             [copied.heap[filtered] EXCEPT
                                 !.keys = @ \cup {"orchestration_map"},
                                 !.orchestration_map = Redacted])
                  ELSE copied.heap
            h2 == IF /\ "extra" \in h1[filtered].keys
                     /\ h1[h1[filtered].extra].keys # {}
                  THEN Store(Store(h1, "new_extra", NewExtra(h1[h1[filtered].extra], role)),
                             filtered, [h1[filtered] EXCEPT !.extra = "new_extra"])
                  ELSE h1
        IN  [heap |-> h2, ref |-> filtered]

Runs == {1, 2}

FilterInit ==
    /\ SchedulerIdle
    /\ RouteTaskIdle
    /\ OrchestrateIdle
    /\ TimelineIdle
    /\ ClientIdle
    /\ ExtractJsonIdle
    /\ StorageIdle
    /\ PairIdle
    /\ ContextIdle
    /\ fr_pc = "called"
    /\ fr_role \in Roles
    /\ fr_input \in [Runs -> FilterInputs]
    /\ fr_heap = fr_input
    /\ fr_returned = [r \in Runs |-> None]

\* both calls run to their end
FrFilter ==
    /\ fr_pc = "called"
    /\ fr_pc' = "returned"
    /\ fr_heap' = [r \in Runs |-> filter_response(fr_heap[r], fr_role).heap]
    /\ fr_returned' = [r \in Runs |-> filter_response(fr_heap[r], fr_role).ref]
    /\ UNCHANGED <<fr_role, fr_input>>
    /\ UNCHANGED outside_filter

FilterNext ==
    \/ FrFilter

FilterSpec == FilterInit /\ [][FilterNext]_vars

\* the dict a call returned
Returned(r) == fr_heap[r][fr_returned[r]]

\* the two responses carry the same message_id, or both none
SameMessageId ==
    /\ ("message_id" \in fr_input[1].data.keys) = ("message_id" \in fr_input[2].data.keys)
    /\ fr_input[1].data.message_id = fr_input[2].data.message_id

\* C30: for the customer role two responses with the same message_id give
\* the same output, which holds no map and no extra data; for any other
\* role without view_orchestration_map, unknown roles included, the
\* returned orchestration_map is the redaction marker; the objects given
\* to the call are unchanged after it for every role
C30_FilterLeaksNothingAndKeepsInput ==
    fr_pc = "returned" =>
        /\ fr_role = "customer" =>
              /\ \A r \in Runs :
                    Returned(r).keys \cap {"orchestration_map", "extra", "tasks", "risks",
                                           "decisions", "action_items"} = {}
              /\ SameMessageId => Returned(1) = Returned(2)
        /\ fr_role # "customer" /\ ~has_permission(fr_role, "view_orchestration_map") =>
              \A r \in Runs :
                  /\ "orchestration_map" \in Returned(r).keys
                  /\ Returned(r).orchestration_map = Redacted
        /\ \A r \in Runs : \A ref \in DOMAIN fr_input[r] :
              fr_heap[r][ref] = fr_input[r][ref]

\* the customer got the same summary for two responses of one message
\* whose maps and extra data differ
C30_Witness ==
    /\ fr_pc = "returned" /\ fr_role = "customer"
    /\ SameMessageId
    /\ fr_input[1].data.orchestration_map # fr_input[2].data.orchestration_map
    /\ "extra" \in DOMAIN fr_input[1] /\ "extra" \notin DOMAIN fr_input[2]
    /\ Returned(1) = Returned(2)
    /\ Returned(1).message_id = "MSG-001"
====
